---- MODULE Spec2Model ----
(***************************************************************************)
(* Party planner backend (app/main.py, app/services.py, app/models.py):    *)
(* the record store (parties, slots, members), the membership state        *)
(* machine, slot reassignment and the host permission checks.              *)
(*                                                                         *)
(* Records are kept in sequences; a record's id is its index (the store    *)
(* hands out ids 1, 2, 3, ... and never deletes a row).                    *)
(***************************************************************************)
EXTENDS Integers, Sequences, FiniteSets, TLC

\* ---------------------------------------------------------------- bounds
MaxParties == 2
MaxSlots == 2
MaxMembers == 3
MaxCapacity == 2
MaxIpTarget == 1
MaxRequests == 2
\* The record store holds at most MaxRecords rows over its three tables.
MaxRecords == 4
\* generate_invite_code() returns one of the codes 1..MaxInviteCode.
MaxInviteCode == 2
\* Live connections, chat posts in flight, chat messages, characters of a content.
MaxConnections == 2
MaxPosts == 1
MaxMessages == 2
MaxContentLen == 2
MaxUsers == 3

\* ------------------------------------------------------- program constants
\* Python's None for an Optional[int] column (ids start at 1, ip_target >= 0).
None == -1
\* Python's None for the Optional[str] argument target_state.
NoState == "None"

HTTP_200_OK == 200
HTTP_201_CREATED == 201
HTTP_400_BAD_REQUEST == 400
HTTP_401_UNAUTHORIZED == 401
HTTP_403_FORBIDDEN == 403
HTTP_404_NOT_FOUND == 404
HTTP_409_CONFLICT == 409
HTTP_500_INTERNAL_SERVER_ERROR == 500
WS_1008_POLICY_VIOLATION == 1008
WS_1011_INTERNAL_ERROR == 1011

\* models.py MemberState
WAITING == "waiting"
APPLIED == "applied"
ACCEPTED == "accepted"
LOCKED == "locked"
REJECTED == "rejected"
KICKED == "kicked"
MemberState == {WAITING, APPLIED, ACCEPTED, LOCKED, REJECTED, KICKED}

\* models.py PartyVisibility, PartyStatus
PUBLIC == "public"
PRIVATE == "private"
OPEN == "open"
CLOSED == "closed"

\* ---------------------------------------------------------------- state
VARIABLES
    parties,    \* table Party: Seq of [capacity, visibility, invite_code, host_id, host_name, status, open_slot_count]
    slots,      \* table PartySlot: Seq of [party_id, ip_target]
    members,    \* table PartyMember: Seq of [party_id, slot_id, state]
    response,   \* the last request's outcome: [op, status, detail]
    requests,   \* requests in flight on the thread pool, each in its own session
    messages,   \* table ChatMessage: Seq of [party_id, member_id, content]
    active_connections, \* manager.active_connections: party id -> set of connections
    tasks,      \* the coroutines on the event loop: live connections and chat posts
    published,  \* the calls of manager.broadcast so far: Seq of [party_id, message]
    users       \* table User: Seq of [username, role]

chatVars == <<messages, active_connections, tasks, published>>

vars == <<parties, slots, members, response, requests, chatVars, users>>

\* ------------------------------------------------------------- callers
\* The identity a request carries: host_id / host_name query parameters are
\* the caller's id and name; role is what the authenticator knows of them.
HostUser == [id |-> "u1", name |-> "alice", role |-> "user"]
OtherUser == [id |-> "u2", name |-> "bob", role |-> "user"]
NamesakeUser == [id |-> "u3", name |-> "alice", role |-> "user"]
AdminUser == [id |-> "u9", name |-> "root", role |-> "admin"]
Callers == {HostUser, OtherUser, NamesakeUser, AdminUser}

\* Python truthiness of an Optional[int]: None and 0 are falsy.
Truthy(x) == x # None /\ x # 0

\* Python's `a or b` on Optional[int].
PyOr(a, b) == IF Truthy(a) THEN a ELSE b

Max(a, b) == IF a >= b THEN a ELSE b

\* Rows in the store once the tables are ps, ss, ms.
Rows(ps, ss, ms) == Len(ps) + Len(ss) + Len(ms)

Resp(op, status, detail) == [op |-> op, status |-> status, detail |-> detail]

NoRequest == [pc |-> "idle"]

\* ------------------------------------------------------------ lookups
\* session.get(Party, party_id) is not None
_get_party_or_404(party_id) == party_id \in DOMAIN parties

\* session.get(PartySlot, slot_id) exists and belongs to the party
_get_slot_or_404(party_id, slot_id) ==
    slot_id \in DOMAIN slots /\ slots[slot_id].party_id = party_id

\* Faulty variant: the exclusion of the member itself is dropped from the count.
_count_confirmed_members_all(ms, party_id, exclude_member_id) ==
    Cardinality({i \in DOMAIN ms :
        ms[i].party_id = party_id /\ ms[i].state \in {ACCEPTED, LOCKED}})

\* SELECT count(*) of the party's members in ACCEPTED or LOCKED, over the
\* member table ms, leaving out exclude_member_id when it is given.
_count_confirmed_members(ms, party_id, exclude_member_id) ==
    Cardinality({i \in DOMAIN ms :
        /\ ms[i].party_id = party_id
        /\ ms[i].state \in {ACCEPTED, LOCKED}
        /\ (exclude_member_id = None \/ i # exclude_member_id)})

\* SELECT count(*) of the slot's members in ACCEPTED or LOCKED.
_count_slot_confirmed_members(ms, slot_id, exclude_member_id) ==
    Cardinality({i \in DOMAIN ms :
        /\ ms[i].slot_id = slot_id
        /\ ms[i].state \in {ACCEPTED, LOCKED}
        /\ (exclude_member_id = None \/ i # exclude_member_id)})

\* Faulty variant: the party is refused only once it is over capacity (> for >=).
PartyCapacityRaisesOffByOne(ms, party_id, member_id) ==
    LET confirmed == _count_confirmed_members(ms, party_id, member_id)
    IN  Truthy(parties[party_id].capacity) /\ confirmed > parties[party_id].capacity

\* The party-capacity half of _ensure_capacity_constraints: TRUE when it raises.
PartyCapacityRaises(ms, party_id, member_id) ==
    LET confirmed == _count_confirmed_members(ms, party_id, member_id)
    IN  Truthy(parties[party_id].capacity) /\ confirmed >= parties[party_id].capacity

\* The slot half of _ensure_capacity_constraints: TRUE when it raises.
SlotCapacityRaises(ms, party_id, target_slot, member_id) ==
    /\ target_slot # None
    /\ LET slot_limit == PyOr(slots[target_slot].ip_target, parties[party_id].capacity)
           occupied == _count_slot_confirmed_members(ms, target_slot, member_id)
       IN  Truthy(slot_limit) /\ occupied >= slot_limit

\* "ok" when the function returns, else the kind of the 409 it raises.
_ensure_capacity_constraints(ms, party_id, target_slot, member_id, target_state) ==
    IF target_state \notin {ACCEPTED, LOCKED} THEN "ok"
    ELSE IF PartyCapacityRaises(ms, party_id, member_id) THEN "CapacityExceeded"
    ELSE IF SlotCapacityRaises(ms, party_id, target_slot, member_id) THEN "SlotCapacityExceeded"
    ELSE "ok"

\* Faulty variant: the host is recognised by name, as _assert_host_permission does.
verify_host_permission_by_name(party_id, host_id) ==
    IF party_id \notin DOMAIN parties THEN "NotFound"
    ELSE IF \A c \in Callers : c.id = host_id => c.name # parties[party_id].host_name
         THEN "PermissionDenied"
    ELSE "ok"

\* services.verify_host_permission: "ok", or the error it raises.
verify_host_permission(party_id, host_id) ==
    IF party_id \notin DOMAIN parties THEN "NotFound"
    ELSE IF parties[party_id].host_id # host_id THEN "PermissionDenied"
    ELSE "ok"

\* main._assert_host_permission: "ok", or the error it raises.
_assert_host_permission(party_id, host_name) ==
    IF parties[party_id].host_name # host_name THEN "PermissionDenied" ELSE "ok"

StatusOf(detail) ==
    CASE detail = "ok" -> HTTP_200_OK
      [] detail = "NotFound" -> HTTP_404_NOT_FOUND
      [] detail = "Unauthorized" -> HTTP_401_UNAUTHORIZED
      [] detail \in {"PermissionDenied", "NotMember", "ChatBlocked", "AdminRequired"}
            -> HTTP_403_FORBIDDEN
      [] detail \in {"CapacityExceeded", "SlotCapacityExceeded", "InvalidStateForMove",
                     "SlotLimitReached"} -> HTTP_409_CONFLICT
      [] detail \in {"InviteCodeNotNeeded", "EmptyMessage", "RoleNotAllowed", "UsernameTaken",
                     "AdminReserved"} -> HTTP_400_BAD_REQUEST
      [] OTHER -> HTTP_500_INTERNAL_SERVER_ERROR

\* session.commit() of one member object: the UPDATE sets the columns whose
\* value differs from the one the session loaded.
CommitMember(ms, member_id, loaded, current) ==
    [ms EXCEPT ![member_id] =
        [party_id |-> @.party_id,
         slot_id |-> IF current.slot_id # loaded.slot_id THEN current.slot_id ELSE @.slot_id,
         state |-> IF current.state # loaded.state THEN current.state ELSE @.state]]

\* ----------------------------------------------------- slot reassignment
\* Faulty variant: the slot is written and committed before the capacity check, so a
\* refused move leaves the new slot_id behind.
move_member_to_slot_write_first(ms, party_id, member_id, member, target_slot_id, commit, target_state) ==
    LET fail(kind) == [detail |-> kind, member |-> member, ms |-> ms]
        moved == [member EXCEPT !.slot_id = target_slot_id]
        written == CommitMember(ms, member_id, member, moved)
    IN  IF ~_get_slot_or_404(party_id, target_slot_id) THEN fail("NotFound")
        ELSE IF member.slot_id = target_slot_id THEN fail("ok")
        ELSE IF member.state \in {LOCKED, REJECTED} THEN fail("InvalidStateForMove")
        ELSE LET check == _ensure_capacity_constraints(ms, party_id, target_slot_id, member_id,
                              IF target_state = NoState THEN member.state ELSE target_state)
             IN  [detail |-> check, member |-> moved, ms |-> written]

\* Faulty variant: the capacity check runs before the frozen-state check.
move_member_to_slot_capacity_first(ms, party_id, member_id, member, target_slot_id, commit, target_state) ==
    LET fail(kind) == [detail |-> kind, member |-> member, ms |-> ms]
        check == _ensure_capacity_constraints(ms, party_id, target_slot_id, member_id,
                     IF target_state = NoState THEN member.state ELSE target_state)
        moved == [member EXCEPT !.slot_id = target_slot_id]
    IN  IF ~_get_slot_or_404(party_id, target_slot_id) THEN fail("NotFound")
        ELSE IF member.slot_id = target_slot_id THEN fail("ok")
        ELSE IF check # "ok" THEN fail(check)
        ELSE IF member.state \in {LOCKED, REJECTED} THEN fail("InvalidStateForMove")
        ELSE [detail |-> "ok", member |-> moved,
              ms |-> IF commit THEN CommitMember(ms, member_id, member, moved) ELSE ms]

\* Faulty variant: the frozen-state check runs before the same-slot return, so
\* a locked or rejected member asking for its own slot is refused.
move_member_to_slot_frozen_first(ms, party_id, member_id, member, target_slot_id, commit, target_state) ==
    LET fail(kind) == [detail |-> kind, member |-> member, ms |-> ms]
    IN  IF ~_get_slot_or_404(party_id, target_slot_id) THEN fail("NotFound")
        ELSE IF member.state \in {LOCKED, REJECTED} THEN fail("InvalidStateForMove")
        ELSE IF member.slot_id = target_slot_id THEN fail("ok")
        ELSE LET check == _ensure_capacity_constraints(ms, party_id, target_slot_id, member_id,
                              IF target_state = NoState THEN member.state ELSE target_state)
                 moved == [member EXCEPT !.slot_id = target_slot_id]
             IN  IF check # "ok" THEN fail(check)
                 ELSE [detail |-> "ok", member |-> moved,
                       ms |-> IF commit THEN CommitMember(ms, member_id, member, moved) ELSE ms]

\* move_member_to_slot over the member table ms, for the session's member
\* object `member` (as loaded). Returns the error kind (or "ok"), the
\* session's member object afterwards, and the committed member table.
move_member_to_slot(ms, party_id, member_id, member, target_slot_id, commit, target_state) ==
    LET fail(kind) == [detail |-> kind, member |-> member, ms |-> ms]
    IN  IF ~_get_slot_or_404(party_id, target_slot_id) THEN fail("NotFound")
        ELSE IF member.slot_id = target_slot_id THEN fail("ok")
        ELSE IF member.state \in {LOCKED, REJECTED} THEN fail("InvalidStateForMove")
        ELSE LET check == _ensure_capacity_constraints(ms, party_id, target_slot_id, member_id,
                              IF target_state = NoState THEN member.state ELSE target_state)
                 moved == [member EXCEPT !.slot_id = target_slot_id]
             IN  IF check # "ok" THEN fail(check)
                 ELSE [detail |-> "ok", member |-> moved,
                       ms |-> IF commit THEN CommitMember(ms, member_id, member, moved) ELSE ms]

\* A direct call move_member_to_slot(party_id, member_id, target_slot_id, session):
\* the function loads party and member itself, commit=True, target_state=None.
MoveCall(party_id, member_id, target_slot_id) ==
    IF ~_get_party_or_404(party_id) THEN [detail |-> "NotFound", ms |-> members]
    ELSE IF member_id \notin DOMAIN members \/ members[member_id].party_id # party_id
         THEN [detail |-> "NotFound", ms |-> members]
    ELSE LET r == move_member_to_slot(members, party_id, member_id, members[member_id],
                                      target_slot_id, TRUE, NoState)
         IN  [detail |-> r.detail, ms |-> r.ms]

\* ------------------------------------------------ membership state machine
\* POST /parties/{party_id}/members/{member_id}/state with payload
\* [state, slot_id] and query parameter host_id: the error kind (or "ok") and
\* the member table the request leaves committed.
update_member_state(party_id, member_id, payload, host_id) ==
    LET fail(kind) == [detail |-> kind, ms |-> members]
    IN  IF ~_get_party_or_404(party_id) THEN fail("NotFound")
        ELSE IF verify_host_permission(party_id, host_id) # "ok"
             THEN fail(verify_host_permission(party_id, host_id))
        ELSE IF member_id \notin DOMAIN members \/ members[member_id].party_id # party_id
             THEN fail("NotFound")
        ELSE LET loaded == members[member_id]
                 moving == payload.slot_id # None /\ payload.slot_id # loaded.slot_id
                 mv == IF moving
                       THEN move_member_to_slot(members, party_id, member_id, loaded,
                                                payload.slot_id, FALSE, payload.state)
                       ELSE [detail |-> "ok", member |-> loaded, ms |-> members]
                 target_slot == IF moving THEN payload.slot_id
                                ELSE IF Truthy(loaded.slot_id) THEN loaded.slot_id ELSE None
             IN  IF mv.detail # "ok" THEN [detail |-> mv.detail, ms |-> mv.ms]
                 ELSE LET check == _ensure_capacity_constraints(mv.ms, party_id, target_slot,
                                                                member_id, payload.state)
                          updated == [mv.member EXCEPT !.state = payload.state]
                      IN  IF check # "ok" THEN [detail |-> check, ms |-> mv.ms]
                          ELSE [detail |-> "ok",
                                ms |-> CommitMember(mv.ms, member_id, loaded, updated)]

\* Faulty variant: the member is kicked but keeps its slot_id.
remove_member_keep_slot(party_id, member_id, host_name) ==
    LET fail(kind) == [detail |-> kind, ms |-> members]
    IN  IF ~_get_party_or_404(party_id) THEN fail("NotFound")
        ELSE IF _assert_host_permission(party_id, host_name) # "ok" THEN fail("PermissionDenied")
        ELSE IF member_id \notin DOMAIN members \/ members[member_id].party_id # party_id
             THEN fail("NotFound")
        ELSE [detail |-> "ok", ms |-> [members EXCEPT ![member_id].state = KICKED]]

\* DELETE /parties/{party_id}/members/{member_id} with query parameter host_name.
remove_member(party_id, member_id, host_name) ==
    LET fail(kind) == [detail |-> kind, ms |-> members]
    IN  IF ~_get_party_or_404(party_id) THEN fail("NotFound")
        ELSE IF _assert_host_permission(party_id, host_name) # "ok" THEN fail("PermissionDenied")
        ELSE IF member_id \notin DOMAIN members \/ members[member_id].party_id # party_id
             THEN fail("NotFound")
        ELSE [detail |-> "ok",
              ms |-> [members EXCEPT ![member_id] =
                         [party_id |-> @.party_id, slot_id |-> None, state |-> KICKED]]]


\* ------------------------------------------------------ capacity calculator
\* Faulty variant: the difference is returned without the clamp at 0.
calculate_open_slot_count_unclamped(ss, party_id, capacity) ==
    IF capacity = None THEN None
    ELSE capacity - Cardinality({i \in DOMAIN ss : ss[i].party_id = party_id})

\* services.calculate_open_slot_count over the slot table ss.
calculate_open_slot_count(ss, party_id, capacity) ==
    IF capacity = None THEN None
    ELSE LET slot_count == Cardinality({i \in DOMAIN ss : ss[i].party_id = party_id})
         IN  Max(capacity - slot_count, 0)

\* services.update_open_slot_count: the party table with the cache refreshed.
update_open_slot_count(ps, ss, party_id) ==
    [ps EXCEPT ![party_id].open_slot_count =
        calculate_open_slot_count(ss, party_id, ps[party_id].capacity)]

\* ------------------------------------------------------- party and slots
\* The Party row create_party builds: the payload's fields, with an invite
\* code generated when the party is PRIVATE and the payload's code is None or
\* the empty string (invite code 0 stands for the empty string).
Party(payload, generated) ==
    LET invite_code == IF payload.visibility = PRIVATE /\ ~Truthy(payload.invite_code)
                       THEN generated ELSE payload.invite_code
    IN  [payload EXCEPT !.invite_code = invite_code]

\* POST /parties/{party_id}/invite-code: generated is what
\* generate_invite_code() returns.
regenerate_invite_code(party_id, generated) ==
    IF ~_get_party_or_404(party_id) THEN [detail |-> "NotFound", ps |-> parties]
    ELSE IF parties[party_id].visibility # PRIVATE
         THEN [detail |-> "InviteCodeNotNeeded", ps |-> parties]
    ELSE [detail |-> "ok", ps |-> [parties EXCEPT ![party_id].invite_code = generated]]

\* POST /parties: payload is a PartyCreate, generated is what
\* generate_invite_code() returns if it is called.
create_party(payload, generated) ==
    LET added == Append(parties, Party(payload, generated))
    IN  update_open_slot_count(added, slots, Len(added))

\* POST /parties/{party_id}/slots with query parameter host_id.
create_slot(party_id, payload, host_id) ==
    LET fail(kind) == [detail |-> kind, ss |-> slots, ps |-> parties]
        perm == verify_host_permission(party_id, host_id)
    IN  IF perm # "ok" THEN fail(perm)
        ELSE LET open_slots == calculate_open_slot_count(slots, party_id,
                                                         parties[party_id].capacity)
                 added == Append(slots, [party_id |-> party_id, ip_target |-> payload.ip_target])
             IN  IF open_slots # None /\ open_slots <= 0 THEN fail("SlotLimitReached")
                 ELSE [detail |-> "ok", ss |-> added,
                       ps |-> update_open_slot_count(parties, added, party_id)]

\* --------------------------------------------------------- apply and join
\* Faulty variant: the visibility of the party is not looked at.
apply_to_party_any_visibility(party_id, payload) ==
    LET fail(kind) == [detail |-> kind, ms |-> members]
    IN  IF ~_get_party_or_404(party_id) THEN fail("NotFound")
        ELSE IF payload.slot_id # None /\ ~_get_slot_or_404(party_id, payload.slot_id)
             THEN fail("NotFound")
        ELSE [detail |-> "ok",
              ms |-> Append(members, [party_id |-> party_id, slot_id |-> payload.slot_id,
                                      state |-> APPLIED])]

\* POST /parties/{party_id}/apply with payload [slot_id].
apply_to_party(party_id, payload) ==
    LET fail(kind) == [detail |-> kind, ms |-> members]
    IN  IF ~_get_party_or_404(party_id) THEN fail("NotFound")
        ELSE IF parties[party_id].visibility = PRIVATE THEN fail("PermissionDenied")
        ELSE IF payload.slot_id # None /\ ~_get_slot_or_404(party_id, payload.slot_id)
             THEN fail("NotFound")
        ELSE [detail |-> "ok",
              ms |-> Append(members, [party_id |-> party_id, slot_id |-> payload.slot_id,
                                      state |-> APPLIED])]

\* The PartyJoinByCode payload parsed from a request body: the model declares
\* invite_code and applicant_name, and every other key of the body (slot_id,
\* gear_preset) is dropped.
PartyJoinByCode(body) == [invite_code |-> body.invite_code]

\* POST /parties/join-by-code with a PartyJoinByCode payload: the model has the
\* fields invite_code and applicant_name only, so reading payload.slot_id
\* raises AttributeError once the party is found.
join_party_by_code(payload) ==
    LET found == {p \in DOMAIN parties :
                    parties[p].visibility = PRIVATE /\ parties[p].invite_code = payload.invite_code}
    IN  IF found = {} THEN [detail |-> "NotFound", ms |-> members]
        ELSE [detail |-> "AttributeError", ms |-> members]

\* ------------------------------------------------------- request inputs
Capacities == {None} \cup (1..MaxCapacity)
IpTargets == {None} \cup (0..MaxIpTarget)
InviteCodes == {1}

\* The PartyCreate payloads of the membership specification: the host's
\* identity, default status, no invite code or open_slot_count supplied.
PartyPayloads ==
    {[capacity |-> c, visibility |-> v, invite_code |-> None, host_id |-> HostUser.id,
      host_name |-> HostUser.name, status |-> OPEN, open_slot_count |-> None] :
        c \in Capacities, v \in {PUBLIC, PRIVATE}}

\* Ids a request may name: every id in the table and one id that is not.
PartyIdInputs == 1..(Len(parties) + 1)
SlotIdInputs == 1..(Len(slots) + 1)
MemberIdInputs == 1..(Len(members) + 1)

StatePayloads == [state : MemberState, slot_id : {None} \cup SlotIdInputs]

\* An input the handler never reads (it has raised before) is drawn once.
Unread(read, inputs) == IF read THEN inputs ELSE {CHOOSE x \in inputs : TRUE}

\* A transition payload asks for a slot move when it names a slot other than
\* the member's current one.
Moving(m, payload) == payload.slot_id # None /\ payload.slot_id # members[m].slot_id

MemberOf(party_id, member_id) ==
    member_id \in DOMAIN members /\ members[member_id].party_id = party_id

\* ----------------------------------------------------------------- Init
\* A coroutine that has not started; connection t is task t. `rejected` is
\* kept for the properties only: the connections of a broadcast's snapshot
\* whose member was REJECTED when manager.broadcast was called.
NoTask ==
    [pc |-> "new", open |-> TRUE, party_id |-> None, member_id |-> None,
     message |-> None, pending |-> {}, code |-> None, received |-> <<>>, rejected |-> {}]

Tasks == 1..(MaxConnections + MaxPosts)

\* PartyWebSocketManager.__init__ and an empty chat log.
InitChat ==
    /\ messages = <<>>
    /\ active_connections = <<>>
    /\ tasks = [t \in Tasks |-> NoTask]
    /\ published = <<>>

Init ==
    /\ InitChat
    /\ users = <<>>
    /\ parties = <<>>
    /\ slots = <<>>
    /\ members = <<>>
    /\ response = Resp("startup", HTTP_200_OK, "ok")
    /\ requests = [r \in 1..MaxRequests |-> NoRequest]

\* --------------------------------------------------------------- actions
CreateParty ==
    /\ Len(parties) < MaxParties
    /\ Rows(parties, slots, members) < MaxRecords
    /\ \E payload \in PartyPayloads, generated \in InviteCodes :
          parties' = create_party(payload, generated)
    /\ response' = Resp("create_party", HTTP_201_CREATED, "ok")
    /\ UNCHANGED <<slots, members, requests, chatVars, users>>

CreateSlot ==
    \E party_id \in PartyIdInputs, caller \in Callers :
      \E ip_target \in Unread(verify_host_permission(party_id, caller.id) = "ok", IpTargets) :
        LET r == create_slot(party_id, [ip_target |-> ip_target], caller.id)
        IN  /\ Len(r.ss) <= MaxSlots
            /\ Rows(r.ps, r.ss, members) <= MaxRecords
            /\ slots' = r.ss
            /\ parties' = r.ps
            /\ response' = Resp("create_slot",
                   IF r.detail = "ok" THEN HTTP_201_CREATED ELSE StatusOf(r.detail), r.detail)
            /\ UNCHANGED <<members, requests, chatVars, users>>

ApplyToParty ==
    \E party_id \in PartyIdInputs, slot_id \in {None} \cup SlotIdInputs :
        LET r == apply_to_party(party_id, [slot_id |-> slot_id])
        IN  /\ Len(r.ms) <= MaxMembers
            /\ Rows(parties, slots, r.ms) <= MaxRecords
            /\ members' = r.ms
            /\ response' = Resp("apply_to_party",
                   IF r.detail = "ok" THEN HTTP_201_CREATED ELSE StatusOf(r.detail), r.detail)
            /\ UNCHANGED <<parties, slots, requests, chatVars, users>>

JoinPartyByCode ==
    \E code \in InviteCodes \cup {0}, slot_id \in {None} \cup SlotIdInputs :
        LET r == join_party_by_code(PartyJoinByCode([invite_code |-> code, slot_id |-> slot_id]))
        IN  /\ members' = r.ms
            /\ response' = Resp("join_party_by_code", StatusOf(r.detail), r.detail)
            /\ UNCHANGED <<parties, slots, requests, chatVars, users>>

UpdateMemberState ==
    \E party_id \in PartyIdInputs, caller \in Callers :
      \E member_id \in Unread(verify_host_permission(party_id, caller.id) = "ok", MemberIdInputs) :
        \E payload \in Unread(/\ verify_host_permission(party_id, caller.id) = "ok"
                              /\ MemberOf(party_id, member_id), StatePayloads) :
          LET r == update_member_state(party_id, member_id, payload, caller.id)
          IN  /\ members' = r.ms
              /\ response' = Resp("update_member_state", StatusOf(r.detail), r.detail)
              /\ UNCHANGED <<parties, slots, requests, chatVars, users>>

MoveMemberToSlot ==
    \E party_id \in PartyIdInputs :
      \E member_id \in Unread(_get_party_or_404(party_id), MemberIdInputs) :
        \E target_slot_id \in Unread(_get_party_or_404(party_id) /\ MemberOf(party_id, member_id),
                                     SlotIdInputs) :
          LET r == MoveCall(party_id, member_id, target_slot_id)
          IN  /\ members' = r.ms
              /\ response' = Resp("move_member_to_slot", StatusOf(r.detail), r.detail)
              /\ UNCHANGED <<parties, slots, requests, chatVars, users>>

RemoveMember ==
    \E party_id \in PartyIdInputs, caller \in Callers :
      \E member_id \in Unread(/\ _get_party_or_404(party_id)
                              /\ _assert_host_permission(party_id, caller.name) = "ok",
                              MemberIdInputs) :
        LET r == remove_member(party_id, member_id, caller.name)
        IN  /\ members' = r.ms
            /\ response' = Resp("remove_member", StatusOf(r.detail), r.detail)
            /\ UNCHANGED <<parties, slots, requests, chatVars, users>>

Next ==
    \/ CreateParty
    \/ CreateSlot
    \/ ApplyToParty
    \/ JoinPartyByCode
    \/ UpdateMemberState
    \/ MoveMemberToSlot
    \/ RemoveMember

Spec == Init /\ [][Next]_vars

\* ------------------------------------------------- concurrent transitions
\* Sync handlers run on the server's thread pool, each with the session that
\* get_session yields; nothing in update_member_state locks a row, so every
\* SELECT of a request reads what is committed when it runs and the UPDATE is
\* sent at session.commit(). A request is modelled by its steps: load and
\* authorise, slot move, capacity check, commit.
Min(a, b) == IF a <= b THEN a ELSE b

\* The store after the host created one PUBLIC party with a capacity, at most
\* one slot in it, and applicants applied (each to no slot or to that slot).
ConcSlotTables ==
    {<<>>} \cup {<<[party_id |-> 1, ip_target |-> k]>> : k \in {None} \cup (1..MaxIpTarget)}

ConcPartyTable(c, ss) ==
    update_open_slot_count(
        <<[capacity |-> c, visibility |-> PUBLIC, invite_code |-> None,
           host_id |-> HostUser.id, host_name |-> HostUser.name, status |-> OPEN,
           open_slot_count |-> None]>>, ss, 1)

InitConc ==
    /\ InitChat
    /\ users = <<>>
    /\ slots \in ConcSlotTables
    /\ \E c \in 1..MaxCapacity : parties = ConcPartyTable(c, slots)
    /\ \E n \in 2..Min(MaxMembers, MaxRecords - 1 - Len(slots)) :
          members \in [1..n -> [party_id : {1}, slot_id : {None} \cup DOMAIN slots,
                                state : {APPLIED}]]
    /\ response = Resp("apply_to_party", HTTP_201_CREATED, "ok")
    /\ requests = [r \in 1..MaxRequests |-> NoRequest]

DoneRequest == [pc |-> "done"]

\* The members other requests are working on.
InFlightMembers(r) ==
    {requests[q].member_id : q \in {q \in DOMAIN requests :
                                       q # r /\ requests[q].pc \in {"move", "check", "commit"}}}

\* update_member_state up to the slot move: party, permission and member are
\* loaded; the session keeps the member object as loaded.
BeginUpdate(r) ==
    /\ requests[r].pc = "idle"
    /\ \E party_id \in PartyIdInputs, caller \in Callers :
        \E member_id \in Unread(verify_host_permission(party_id, caller.id) = "ok",
                                MemberIdInputs \ InFlightMembers(r)) :
          \E payload \in Unread(/\ verify_host_permission(party_id, caller.id) = "ok"
                                /\ MemberOf(party_id, member_id), StatePayloads) :
            LET perm == verify_host_permission(party_id, caller.id)
                kind == IF perm # "ok" THEN perm
                        ELSE IF ~MemberOf(party_id, member_id) THEN "NotFound" ELSE "ok"
            IN  IF kind # "ok"
                THEN /\ response' = Resp("update_member_state", StatusOf(kind), kind)
                     /\ requests' = [requests EXCEPT ![r] = DoneRequest]
                ELSE /\ requests' = [requests EXCEPT ![r] =
                            [pc |-> IF Moving(member_id, payload) THEN "move" ELSE "check",
                             party_id |-> party_id, member_id |-> member_id,
                             payload |-> payload, loaded |-> members[member_id],
                             member |-> members[member_id]]]
                     /\ UNCHANGED response
    /\ UNCHANGED <<parties, slots, members, chatVars, users>>

\* The nested move_member_to_slot(commit=False): its counts read the
\* committed member table.
MoveStep(r) ==
    /\ requests[r].pc = "move"
    /\ LET q == requests[r]
           mv == move_member_to_slot(members, q.party_id, q.member_id, q.member,
                                     q.payload.slot_id, FALSE, q.payload.state)
       IN  IF mv.detail # "ok"
           THEN /\ response' = Resp("update_member_state", StatusOf(mv.detail), mv.detail)
                /\ requests' = [requests EXCEPT ![r] = DoneRequest]
           ELSE /\ requests' = [requests EXCEPT ![r] = [q EXCEPT !.pc = "check", !.member = mv.member]]
                /\ UNCHANGED response
    /\ UNCHANGED <<parties, slots, members, chatVars, users>>

\* _ensure_capacity_constraints of the handler itself.
CheckStep(r) ==
    /\ requests[r].pc = "check"
    /\ LET q == requests[r]
           target_slot == IF Truthy(q.member.slot_id) THEN q.member.slot_id ELSE None
           check == _ensure_capacity_constraints(members, q.party_id, target_slot,
                                                 q.member_id, q.payload.state)
       IN  IF check # "ok"
           THEN /\ response' = Resp("update_member_state", StatusOf(check), check)
                /\ requests' = [requests EXCEPT ![r] = DoneRequest]
           ELSE /\ requests' = [requests EXCEPT ![r].pc = "commit"]
                /\ UNCHANGED response
    /\ UNCHANGED <<parties, slots, members, chatVars, users>>

\* member.state = payload.state; session.commit()
CommitStep(r) ==
    /\ requests[r].pc = "commit"
    /\ LET q == requests[r]
       IN  members' = CommitMember(members, q.member_id, q.loaded,
                                   [q.member EXCEPT !.state = q.payload.state])
    /\ response' = Resp("update_member_state", HTTP_200_OK, "ok")
    /\ requests' = [requests EXCEPT ![r] = DoneRequest]
    /\ UNCHANGED <<parties, slots, chatVars, users>>

NextConc ==
    \E r \in 1..MaxRequests :
        \/ BeginUpdate(r)
        \/ MoveStep(r)
        \/ CheckStep(r)
        \/ CommitStep(r)

SpecConc == InitConc /\ [][NextConc]_vars

\* ------------------------------------------- party administration, joining
\* create_party and create_slot commit their row, then update_open_slot_count
\* counts the party's slots and commits the cache in a second transaction;
\* create_slot reads the slot count before its insert and locks nothing. Each
\* worker of the thread pool runs one such request at a time; requests[r] is
\* what worker r is doing.
GeneratedCodes == 1..MaxInviteCode

\* The open_slot_count a PartyCreate payload may carry: absent, or any value
\* >= 0.
OpenSlotCounts == {None} \cup (0..MaxCapacity)

\* The PartyCreate payloads of the slot specification: any capacity, status
\* and open_slot_count.
SlotPartyPayloads ==
    {[capacity |-> c, visibility |-> PUBLIC, invite_code |-> None, host_id |-> HostUser.id,
      host_name |-> HostUser.name, status |-> st, open_slot_count |-> o] :
        c \in Capacities, st \in {OPEN, CLOSED}, o \in OpenSlotCounts}

\* The PartyCreate payloads of the joining specification: any visibility, and
\* an invite code that is absent, empty (0) or given.
JoinPartyPayloads ==
    {[capacity |-> None, visibility |-> v, invite_code |-> i, host_id |-> HostUser.id,
      host_name |-> HostUser.name, status |-> OPEN, open_slot_count |-> None] :
        v \in {PUBLIC, PRIVATE}, i \in {None, 0} \cup InviteCodes}

\* The slots of the slot specification carry no ip_target: no member is
\* assigned there.
SlotIpTargets == {None}

Free(r) == requests[r].pc \in {"idle", "done"}

\* Rows that requests in flight are about to insert.
PendingInserts == Cardinality({q \in DOMAIN requests : requests[q].pc = "insert"})

Request(pc, op, party_id, ip_target, open, loaded) ==
    [pc |-> pc, op |-> op, party_id |-> party_id, ip_target |-> ip_target,
     open |-> open, loaded |-> loaded]

\* create_party up to its first commit: the Party row is inserted.
BeginCreateParty(r) ==
    /\ Free(r)
    /\ Len(parties) < MaxParties
    /\ Rows(parties, slots, members) + PendingInserts < MaxRecords
    /\ \E payload \in SlotPartyPayloads, generated \in GeneratedCodes :
          parties' = Append(parties, Party(payload, generated))
    /\ requests' = [requests EXCEPT ![r] =
                       Request("count", "create_party", Len(parties) + 1, None, None, None)]
    /\ UNCHANGED <<slots, members, response, chatVars, users>>

\* create_slot up to its capacity check: permission, then the slot count.
BeginCreateSlot(r) ==
    /\ Free(r)
    /\ \E party_id \in PartyIdInputs, caller \in Callers :
        \E ip_target \in SlotIpTargets :
          LET c == create_slot(party_id, [ip_target |-> ip_target], caller.id)
          IN  IF c.detail # "ok"
              THEN /\ response' = Resp("create_slot", StatusOf(c.detail), c.detail)
                   /\ requests' = [requests EXCEPT ![r] = DoneRequest]
              ELSE /\ Len(slots) + PendingInserts < MaxSlots
                   /\ Rows(parties, slots, members) + PendingInserts < MaxRecords
                   /\ requests' = [requests EXCEPT ![r] =
                          Request("insert", "create_slot", party_id, ip_target, None, None)]
                   /\ UNCHANGED response
    /\ UNCHANGED <<parties, slots, members, chatVars, users>>

\* session.add(slot); session.commit()
InsertSlot(r) ==
    /\ requests[r].pc = "insert"
    /\ slots' = Append(slots, [party_id |-> requests[r].party_id,
                               ip_target |-> requests[r].ip_target])
    /\ requests' = [requests EXCEPT ![r].pc = "count"]
    /\ UNCHANGED <<parties, members, response, chatVars, users>>

\* update_open_slot_count, first half: the party row is loaded again (the
\* commit expired it) and calculate_open_slot_count counts the slots.
CountSlots(r) ==
    /\ requests[r].pc = "count"
    /\ LET q == requests[r]
           party == parties[q.party_id]
       IN  requests' = [requests EXCEPT ![r] =
               [q EXCEPT !.pc = "write",
                         !.open = calculate_open_slot_count(slots, q.party_id, party.capacity),
                         !.loaded = party.open_slot_count]]
    /\ UNCHANGED <<parties, slots, members, response, chatVars, users>>

\* update_open_slot_count, second half: the commit writes open_slot_count when
\* it differs from the value loaded; the handler returns 201.
WriteOpenSlots(r) ==
    /\ requests[r].pc = "write"
    /\ LET q == requests[r]
       IN  /\ parties' = IF q.open # q.loaded
                         THEN [parties EXCEPT ![q.party_id].open_slot_count = q.open]
                         ELSE parties
           /\ response' = Resp(q.op, HTTP_201_CREATED, "ok")
    /\ requests' = [requests EXCEPT ![r] = DoneRequest]
    /\ UNCHANGED <<slots, members, chatVars, users>>

NextSlots ==
    \E r \in 1..MaxRequests :
        \/ BeginCreateParty(r)
        \/ BeginCreateSlot(r)
        \/ InsertSlot(r)
        \/ CountSlots(r)
        \/ WriteOpenSlots(r)

SpecSlots == Init /\ [][NextSlots]_vars

\* ------------------------------------------------------- invite codes, joining
\* Parties of either visibility, their invite codes, and applicants: each
\* request is one handler run to its end.
CreatePartyWithCode ==
    /\ Len(parties) < MaxParties
    /\ Rows(parties, slots, members) < MaxRecords
    /\ \E payload \in JoinPartyPayloads :
        \E generated \in Unread(payload.visibility = PRIVATE /\ ~Truthy(payload.invite_code),
                                GeneratedCodes) :
          parties' = create_party(payload, generated)
    /\ response' = Resp("create_party", HTTP_201_CREATED, "ok")
    /\ UNCHANGED <<slots, members, requests, chatVars, users>>

RegenerateInviteCode ==
    /\ \E party_id \in PartyIdInputs :
        \E generated \in Unread(party_id \in DOMAIN parties, GeneratedCodes) :
          LET c == regenerate_invite_code(party_id, generated)
          IN  /\ parties' = c.ps
              /\ response' = Resp("regenerate_invite_code", StatusOf(c.detail), c.detail)
    /\ UNCHANGED <<slots, members, requests, chatVars, users>>

JoinByCode ==
    \E code \in {0} \cup GeneratedCodes, slot_id \in {None} \cup SlotIdInputs :
        LET c == join_party_by_code(PartyJoinByCode([invite_code |-> code, slot_id |-> slot_id]))
        IN  /\ members' = c.ms
            /\ response' = Resp("join_party_by_code", StatusOf(c.detail), c.detail)
            /\ UNCHANGED <<parties, slots, requests, chatVars, users>>

NextJoin ==
    \/ CreatePartyWithCode
    \/ CreateSlot
    \/ RegenerateInviteCode
    \/ ApplyToParty
    \/ JoinByCode

SpecJoin == Init /\ [][NextJoin]_vars

\* ------------------------------------------------------------------ chat
\* A chat content is a string: a sequence of characters.
Chars == {" ", "a"}
Whitespace == {" "}
Contents == UNION {[1..n -> Chars] : n \in 0..MaxContentLen}

\* str.strip(): leading and trailing whitespace removed.
RECURSIVE lstrip(_)
lstrip(s) == IF s # <<>> /\ Head(s) \in Whitespace THEN lstrip(Tail(s)) ELSE s

RECURSIVE rstrip(_)
rstrip(s) ==
    IF s # <<>> /\ s[Len(s)] \in Whitespace THEN rstrip(SubSeq(s, 1, Len(s) - 1)) ELSE s

strip(s) == rstrip(lstrip(s))

\* The texts the clients send: empty, blank, and one character with any
\* leading whitespace.
Texts == {c \in Contents : Len(lstrip(c)) <= 1}

\* Faulty variant: a REJECTED member of the party passes.
_require_active_member_any_state(party_id, member_id) ==
    IF ~_get_party_or_404(party_id) THEN "NotFound"
    ELSE IF member_id \notin DOMAIN members \/ members[member_id].party_id # party_id
         THEN "NotMember"
    ELSE "ok"

\* main._require_active_member: "ok", or the error it raises.
_require_active_member(party_id, member_id) ==
    IF ~_get_party_or_404(party_id) THEN "NotFound"
    ELSE IF member_id \notin DOMAIN members \/ members[member_id].party_id # party_id
         THEN "NotMember"
    ELSE IF members[member_id].state = REJECTED THEN "ChatBlocked"
    ELSE "ok"

\* A sequence back to front, and its first n elements.
Reverse(s) == [i \in 1..Len(s) |-> s[Len(s) + 1 - i]]
Limit(s, n) == SubSeq(s, 1, Min(n, Len(s)))

\* GET /parties/{party_id}/chat with query parameters member_id and limit:
\* the error it raises, or "ok" and the ids of the messages it returns: the
\* party's messages newest first, cut at limit, and turned round.
get_chat_history(party_id, member_id, limit) ==
    LET auth == _require_active_member(party_id, member_id)
        ids == [i \in DOMAIN messages |-> i]
        statement == Limit(Reverse(SelectSeq(ids, LAMBDA i : messages[i].party_id = party_id)),
                           limit)
    IN  IF auth # "ok" THEN [detail |-> auth, history |-> <<>>]
        ELSE [detail |-> "ok", history |-> Reverse(statement)]

\* Faulty variant: only the empty string is refused, content is not stripped
\* for the test.
_create_chat_message_no_strip(msgs, party_id, member_id, content) ==
    IF content = <<>> THEN [detail |-> "EmptyMessage", msgs |-> msgs]
    ELSE [detail |-> "ok",
          msgs |-> Append(msgs, [party_id |-> party_id, member_id |-> member_id,
                                 content |-> strip(content)])]

\* main._create_chat_message over the message table msgs: the error it raises,
\* or "ok" and the table with the committed message.
_create_chat_message(msgs, party_id, member_id, content) ==
    IF content = <<>> \/ strip(content) = <<>>
    THEN [detail |-> "EmptyMessage", msgs |-> msgs]
    ELSE [detail |-> "ok",
          msgs |-> Append(msgs, [party_id |-> party_id, member_id |-> member_id,
                                 content |-> strip(content)])]

\* post_chat_message before its broadcast: the member is authorised, then the
\* message is validated and committed.
post_chat_message(party_id, member_id, content) ==
    LET auth == _require_active_member(party_id, member_id)
    IN  IF auth # "ok" THEN [detail |-> auth, msgs |-> messages]
        ELSE _create_chat_message(messages, party_id, member_id, content)

\* One turn of chat_websocket's read loop before its broadcast, for the text
\* data: the same two calls, in a session of their own.
receive_message(party_id, member_id, data) ==
    LET auth == _require_active_member(party_id, member_id)
    IN  IF auth # "ok" THEN [detail |-> auth, msgs |-> messages]
        ELSE _create_chat_message(messages, party_id, member_id, data)

\* PartyWebSocketManager: active_connections.get(party_id, set())
connections(ac, party_id) == IF party_id \in DOMAIN ac THEN ac[party_id] ELSE {}

\* PartyWebSocketManager.connect, after websocket.accept().
connect(ac, party_id, websocket) ==
    [p \in DOMAIN ac \cup {party_id} |->
        IF p = party_id THEN connections(ac, p) \cup {websocket} ELSE ac[p]]

\* Faulty variant: the party's entry is kept when its last connection goes.
disconnect_keep_entry(ac, party_id, websocket) ==
    IF party_id \notin DOMAIN ac THEN ac
    ELSE [ac EXCEPT ![party_id] = @ \ {websocket}]

\* PartyWebSocketManager.disconnect
disconnect(ac, party_id, websocket) ==
    IF party_id \notin DOMAIN ac THEN ac
    ELSE IF ac[party_id] \ {websocket} = {}
         THEN [p \in DOMAIN ac \ {party_id} |-> ac[p]]
    ELSE [ac EXCEPT ![party_id] = @ \ {websocket}]

Sockets == 1..MaxConnections
Posts == (MaxConnections + 1)..(MaxConnections + MaxPosts)

\* The handlers are coroutines on one event loop: between the commit of a
\* message and the call of manager.broadcast there is no await, so no other
\* coroutine runs while a task is there.
LoopFree(t) == \A u \in Tasks \ {t} : tasks[u].pc # "persisted"

\* A connection a send can reach: accepted, not closed by either side.
Reachable(c) == tasks[c].open /\ tasks[c].pc \in {"active", "persisted", "sending"}

\* A POST handler that has returned; its locals are gone.
DoneTask == [NoTask EXCEPT !.pc = "done"]

\* The task once its broadcast has returned: the POST handler returns, the
\* read loop waits for the next text.
AfterBroadcast(t, task) ==
    IF t \in Posts THEN DoneTask
    ELSE [task EXCEPT !.pc = "active", !.message = None, !.pending = {}, !.rejected = {}]

\* What await connection.send_json(message) raises when the connection cannot
\* take the message. Once the server has closed the connection the framework
\* raises RuntimeError; when the peer is gone the exception is the installed
\* server's: RuntimeError, WebSocketDisconnect, or an error of its own that is
\* neither (ConnectionClosed).
SendFailures == {"RuntimeError", "WebSocketDisconnect", "ConnectionClosed"}

send_json(c) ==
    IF Reachable(c) THEN {"ok"}
    ELSE IF tasks[c].code # None THEN {"RuntimeError"}
    ELSE SendFailures

\* The task once an exception has left its handler (or, in the read loop, was
\* caught as WebSocketDisconnect): the POST handler fails, the read loop is
\* over and its locals are gone.
AfterRaise(t, task) ==
    IF t \in Posts THEN DoneTask
    ELSE [task EXCEPT !.pc = "closed", !.open = FALSE, !.message = None, !.pending = {},
                      !.rejected = {}]

\* What session.commit() raises when the database refuses the write.
CommitFailure == "OperationalError"

\* post_chat_message up to the broadcast: authorisation, then the message is
\* validated and committed, unless session.commit() raises: the database
\* refused the write and nothing is stored.
PostChatMessage(t) ==
    /\ t \in Posts /\ tasks[t].pc \in {"new", "done"} /\ LoopFree(t)
    /\ \E party_id \in PartyIdInputs :
        \E member_id \in Unread(_get_party_or_404(party_id), MemberIdInputs) :
          \E content \in Unread(_require_active_member(party_id, member_id) = "ok", Texts) :
            LET c == post_chat_message(party_id, member_id, content)
            IN  IF c.detail # "ok"
                THEN /\ response' = Resp("post_chat_message", StatusOf(c.detail), c.detail)
                     /\ tasks' = [tasks EXCEPT ![t] = DoneTask]
                     /\ UNCHANGED messages
                ELSE \/ /\ Len(messages) < MaxMessages
                        /\ messages' = c.msgs
                        /\ tasks' = [tasks EXCEPT ![t].pc = "persisted", ![t].party_id = party_id,
                                                  ![t].member_id = member_id,
                                                  ![t].message = Len(c.msgs)]
                        /\ UNCHANGED response
                     \/ /\ response' = Resp("post_chat_message", StatusOf(CommitFailure),
                                             CommitFailure)
                        /\ tasks' = [tasks EXCEPT ![t] = AfterRaise(t, @)]
                        /\ UNCHANGED messages
    /\ UNCHANGED <<users, parties, slots, members, requests, active_connections, published>>

\* Faulty variant: the handler goes on without calling manager.broadcast.
BroadcastNotCalled(t) ==
    /\ tasks[t].pc = "persisted"
    /\ tasks' = [tasks EXCEPT ![t] = AfterBroadcast(t, @)]
    /\ response' = IF t \in Posts THEN Resp("post_chat_message", HTTP_201_CREATED, "ok")
                   ELSE response
    /\ UNCHANGED <<users, parties, slots, members, requests, messages, active_connections, published>>

\* manager.broadcast is called with the serialised message: it takes
\* list(active_connections.get(party_id, set())) and starts sending.
Broadcast(t) ==
    /\ tasks[t].pc = "persisted"
    /\ published' = Append(published, [party_id |-> tasks[t].party_id,
                                       message |-> tasks[t].message])
    /\ LET to == connections(active_connections, tasks[t].party_id)
       IN  IF to = {}
           THEN /\ tasks' = [tasks EXCEPT ![t] = AfterBroadcast(t, @)]
                /\ response' = IF t \in Posts
                               THEN Resp("post_chat_message", HTTP_201_CREATED, "ok")
                               ELSE response
           ELSE /\ tasks' = [tasks EXCEPT ![t].pc = "sending", ![t].pending = to,
                                          ![t].rejected = {c \in to :
                                              members[tasks[c].member_id].state = REJECTED}]
                /\ UNCHANGED response
    /\ UNCHANGED <<users, parties, slots, members, requests, messages, active_connections>>

\* One await connection.send_json(message) of a broadcast: the message is
\* delivered, or the send raises. A RuntimeError is caught by broadcast, which
\* removes the connection and goes on; any other exception leaves broadcast.
\* In post_chat_message it fails the request; in the read loop a
\* WebSocketDisconnect is caught and the loop's own connection is removed,
\* anything else ends the handler with no clean-up.
Send(t) ==
    /\ tasks[t].pc = "sending" /\ LoopFree(t)
    /\ \E c \in tasks[t].pending : \E raised \in send_json(c) :
        LET rest == tasks[t].pending \ {c}
            delivered == IF raised = "ok"
                         THEN [tasks EXCEPT ![c].received = Append(@, tasks[t].message)]
                         ELSE tasks
        IN  IF raised \in {"ok", "RuntimeError"}
            THEN /\ tasks' = [delivered EXCEPT ![t] =
                        IF rest = {} THEN AfterBroadcast(t, @) ELSE [@ EXCEPT !.pending = rest]]
                 /\ active_connections' =
                        IF raised = "ok" THEN active_connections
                        ELSE disconnect(active_connections, tasks[t].party_id, c)
                 /\ response' = IF rest = {} /\ t \in Posts
                                THEN Resp("post_chat_message", HTTP_201_CREATED, "ok")
                                ELSE response
            ELSE /\ tasks' = [tasks EXCEPT ![t] = AfterRaise(t, @)]
                 /\ active_connections' =
                        IF t \in Sockets /\ raised = "WebSocketDisconnect"
                        THEN disconnect(active_connections, tasks[t].party_id, t)
                        ELSE active_connections
                 /\ response' = IF t \in Posts
                                THEN Resp("post_chat_message", StatusOf(raised), raised)
                                ELSE response
    /\ UNCHANGED <<users, parties, slots, members, requests, messages, published>>

\* chat_websocket up to manager.connect: the member_id query parameter is
\* read and parsed and the member is validated; a refusal closes with 1008.
QueryParams == {"missing", "invalid", "int"}

\* Faulty variant: a numeric member_id is taken as it is, without validation.
chat_websocket_unvalidated(param, party_id, member_id) ==
    IF param # "int" THEN WS_1008_POLICY_VIOLATION ELSE None

\* chat_websocket before manager.connect: the code it closes the connection
\* with, or None when it goes on to accept. param tells whether the
\* member_id query parameter is missing, not a number, or the number member_id.
chat_websocket(param, party_id, member_id) ==
    IF param = "missing" THEN WS_1008_POLICY_VIOLATION
    ELSE IF param = "invalid" THEN WS_1008_POLICY_VIOLATION
    ELSE IF _require_active_member(party_id, member_id) # "ok" THEN WS_1008_POLICY_VIOLATION
    ELSE None

Connect(t) ==
    /\ t \in Sockets /\ tasks[t].pc = "new" /\ LoopFree(t)
    /\ \E param \in QueryParams :
        \E party_id \in Unread(param = "int", PartyIdInputs) :
          \E member_id \in Unread(param = "int" /\ _get_party_or_404(party_id), MemberIdInputs) :
            IF chat_websocket(param, party_id, member_id) # None
            THEN tasks' = [tasks EXCEPT ![t].pc = "closed", ![t].open = FALSE,
                                        ![t].code = chat_websocket(param, party_id, member_id)]
            ELSE tasks' = [tasks EXCEPT ![t].pc = "accepting", ![t].party_id = party_id,
                                        ![t].member_id = member_id]
    /\ UNCHANGED <<users, parties, slots, members, response, requests, messages,
                   active_connections, published>>

\* manager.connect: websocket.accept() returns and the connection is registered.
Accept(t) ==
    /\ tasks[t].pc = "accepting" /\ LoopFree(t)
    /\ active_connections' = connect(active_connections, tasks[t].party_id, t)
    /\ tasks' = [tasks EXCEPT ![t].pc = "active"]
    /\ UNCHANGED <<users, parties, slots, members, response, requests, messages, published>>

\* One turn of the read loop up to the broadcast: receive_text() returns data,
\* the member is validated again, the message is validated and committed; an
\* HTTPException sends the handler to websocket.close(1011); an error of
\* session.commit() is caught by neither except clause and ends the handler.
Receive(t) ==
    /\ tasks[t].pc = "active" /\ tasks[t].open /\ LoopFree(t)
    /\ \E data \in Texts :
        LET c == receive_message(tasks[t].party_id, tasks[t].member_id, data)
        IN  IF c.detail # "ok"
            THEN /\ tasks' = [tasks EXCEPT ![t].pc = "closing", ![t].code = WS_1011_INTERNAL_ERROR]
                 /\ UNCHANGED messages
            ELSE \/ /\ Len(messages) < MaxMessages
                    /\ messages' = c.msgs
                    /\ tasks' = [tasks EXCEPT ![t].pc = "persisted", ![t].message = Len(c.msgs)]
                 \/ /\ tasks' = [tasks EXCEPT ![t] = AfterRaise(t, @)]
                    /\ UNCHANGED messages
    /\ UNCHANGED <<users, parties, slots, members, response, requests, active_connections, published>>

\* except HTTPException: websocket.close(1011) returns, then
\* manager.disconnect.
CloseOnError(t) ==
    /\ tasks[t].pc = "closing" /\ LoopFree(t)
    /\ active_connections' = disconnect(active_connections, tasks[t].party_id, t)
    /\ tasks' = [tasks EXCEPT ![t].pc = "closed", ![t].open = FALSE]
    /\ UNCHANGED <<users, parties, slots, members, response, requests, messages, published>>

\* The peer of an accepted connection goes away.
PeerClose(t) ==
    /\ tasks[t].pc \in {"active", "persisted", "sending"} /\ tasks[t].open
    /\ tasks' = [tasks EXCEPT ![t].open = FALSE]
    /\ UNCHANGED <<users, parties, slots, members, response, requests, messages,
                   active_connections, published>>

\* receive_text() raises WebSocketDisconnect: manager.disconnect.
ReceiveDisconnect(t) ==
    /\ tasks[t].pc = "active" /\ ~tasks[t].open /\ LoopFree(t)
    /\ active_connections' = disconnect(active_connections, tasks[t].party_id, t)
    /\ tasks' = [tasks EXCEPT ![t].pc = "closed"]
    /\ UNCHANGED <<users, parties, slots, members, response, requests, messages, published>>

\* The store the chat runs on: two PUBLIC parties without slots; party 1 has
\* an ACCEPTED and a REJECTED member, party 2 an ACCEPTED one.
ChatParty ==
    [capacity |-> None, visibility |-> PUBLIC, invite_code |-> None, host_id |-> HostUser.id,
     host_name |-> HostUser.name, status |-> OPEN, open_slot_count |-> None]

InitChatStore ==
    /\ parties = <<ChatParty, ChatParty>>
    /\ slots = <<>>
    /\ members = << [party_id |-> 1, slot_id |-> None, state |-> ACCEPTED],
                    [party_id |-> 1, slot_id |-> None, state |-> REJECTED],
                    [party_id |-> 2, slot_id |-> None, state |-> ACCEPTED] >>
    /\ response = Resp("startup", HTTP_200_OK, "ok")
    /\ requests = [r \in 1..MaxRequests |-> NoRequest]
    /\ InitChat
    /\ users = <<>>

NextChat ==
    \E t \in Tasks :
        \/ PostChatMessage(t)
        \/ Broadcast(t)
        \/ Send(t)
        \/ Connect(t)
        \/ Accept(t)
        \/ Receive(t)
        \/ CloseOnError(t)
        \/ PeerClose(t)
        \/ ReceiveDisconnect(t)

SpecChat == InitChatStore /\ [][NextChat]_vars

\* A handler that has committed its message runs on to the call of
\* manager.broadcast: nothing between the two awaits or raises.
FairSpecChat == SpecChat /\ \A t \in Tasks : WF_vars(Broadcast(t))

\* ------------------------------------------------------- chat moderation
\* The host accepts and rejects the two members of one party while they hold
\* live connections and post: update_member_state runs on the thread pool,
\* next to the coroutines of the chat.
ModerationPayloads == [state : {ACCEPTED, REJECTED}, slot_id : {None}]

Moderate ==
    \E party_id \in PartyIdInputs, caller \in {HostUser, OtherUser} :
      \E member_id \in Unread(verify_host_permission(party_id, caller.id) = "ok", MemberIdInputs) :
        \E payload \in Unread(/\ verify_host_permission(party_id, caller.id) = "ok"
                              /\ MemberOf(party_id, member_id), ModerationPayloads) :
          LET r == update_member_state(party_id, member_id, payload, caller.id)
          IN  /\ members' = r.ms
              /\ response' = Resp("update_member_state", StatusOf(r.detail), r.detail)
              /\ UNCHANGED <<parties, slots, requests, chatVars, users>>

InitModeration ==
    /\ parties = <<ChatParty>>
    /\ slots = <<>>
    /\ members = << [party_id |-> 1, slot_id |-> None, state |-> ACCEPTED],
                    [party_id |-> 1, slot_id |-> None, state |-> ACCEPTED] >>
    /\ response = Resp("startup", HTTP_200_OK, "ok")
    /\ requests = [r \in 1..MaxRequests |-> NoRequest]
    /\ InitChat
    /\ users = <<>>

\* The members open connections and post over HTTP; the connections are
\* only read from.
NextModeration ==
    \/ Moderate
    \/ \E t \in Tasks :
        \/ Connect(t)
        \/ Accept(t)
        \/ PostChatMessage(t)
        \/ Broadcast(t)
        \/ Send(t)

SpecModeration == InitModeration /\ [][NextModeration]_vars

\* --------------------------------------------------- chat authorisation
\* The members' states change while they post and read the chat of two
\* parties; no live connection is open, so a broadcast has nobody to send to.
Limits == 1..MaxMessages

GetChatHistory ==
    /\ \E party_id \in PartyIdInputs :
        \E member_id \in Unread(_get_party_or_404(party_id), MemberIdInputs) :
          \E limit \in Unread(_require_active_member(party_id, member_id) = "ok", Limits) :
            LET r == get_chat_history(party_id, member_id, limit)
            IN  response' = [op |-> "get_chat_history", status |-> StatusOf(r.detail),
                             detail |-> r.detail, body |-> r.history]
    /\ UNCHANGED <<parties, slots, members, requests, chatVars, users>>

InitHistory ==
    /\ parties = <<ChatParty, ChatParty>>
    /\ slots = <<>>
    /\ members = << [party_id |-> 1, slot_id |-> None, state |-> APPLIED],
                    [party_id |-> 2, slot_id |-> None, state |-> APPLIED] >>
    /\ response = Resp("startup", HTTP_200_OK, "ok")
    /\ requests = [r \in 1..MaxRequests |-> NoRequest]
    /\ InitChat
    /\ users = <<>>

NextHistory ==
    \/ UpdateMemberState
    \/ GetChatHistory
    \/ \E t \in Posts : PostChatMessage(t)
    \/ \E t \in Posts : Broadcast(t)

SpecHistory == InitHistory /\ [][NextHistory]_vars

\* --------------------------------------------------------------- accounts
\* auth.py. A user row is [username, role]; the hashed password is left out.
ADMIN_USERNAME == "admin"

\* models.py UserRole
ADMIN == "admin"
USER == "user"
GUEST == "guest"

\* The fields models.User, models.UserRegister and models.UserCreate declare.
UserFields == {"id", "username", "role", "hashed_password"}
UserRegisterFields == {"username", "password"}
UserCreateFields == {"username", "role", "password"}

Usernames == {ADMIN_USERNAME, "bob"}

\* The "role" key of a registration body as request.json() returns it:
\* absent, a string, or a JSON value of another type.
RoleFields ==
    {[type |-> "absent"], [type |-> "int"]}
        \cup {[type |-> "str", value |-> v] : v \in {"user", "USER", "admin", "guest"}}

RegisterBodies == [username : Usernames, role : RoleFields]

\* A UserCreate: the role is one of admin, user, guest (default user).
UserCreates == [username : Usernames, role : {ADMIN, USER, GUEST}]

\* str.lower() on the role strings.
lower(s) == IF s = "USER" THEN "user" ELSE s

\* The bearer token of a request: none, or one whose sub is a username.
Tokens == {NoState} \cup Usernames

\* session.exec(select(User).where(User.username == username)).first(): the
\* row's index in the table us, or 0.
UserNamed(us, username) ==
    IF \E i \in DOMAIN us : us[i].username = username
    THEN CHOOSE i \in DOMAIN us :
            us[i].username = username /\ \A j \in 1..(i - 1) : us[j].username # username
    ELSE 0

\* auth.get_current_user: the index of the token's user, or 0 when it raises
\* 401 (no token, or no such user).
get_current_user(us, token) == IF token = NoState THEN 0 ELSE UserNamed(us, token)

\* auth.require_authenticated_admin: "ok", or the error it raises.
require_authenticated_admin(us, token) ==
    IF get_current_user(us, token) = 0 THEN "Unauthorized"
    ELSE IF us[get_current_user(us, token)].role # ADMIN THEN "AdminRequired"
    ELSE "ok"

\* register_user up to its first query: the role of the raw body is checked,
\* then the username is looked up. "ok" when the handler goes on.
register_user_checks(us, request_payload) ==
    LET requested_role == request_payload.role
    IN  IF requested_role.type = "str" /\ lower(requested_role.value) # USER
        THEN "RoleNotAllowed"
        ELSE IF UserNamed(us, request_payload.username) # 0 THEN "UsernameTaken"
        ELSE "ok"

\* register_user from its second query on: User.game_id and user_in.game_id
\* are read, the admin name is refused, the user is inserted with role USER.
register_user_insert(us, request_payload) ==
    IF "game_id" \notin UserFields \/ "game_id" \notin UserRegisterFields
    THEN [detail |-> "AttributeError", us |-> us]
    ELSE IF request_payload.username = ADMIN_USERNAME
         THEN [detail |-> "AdminReserved", us |-> us]
    ELSE [detail |-> "ok",
          us |-> Append(us, [username |-> request_payload.username, role |-> USER])]

\* POST /auth/register run without interruption.
register_user(us, request_payload) ==
    IF register_user_checks(us, request_payload) # "ok"
    THEN [detail |-> register_user_checks(us, request_payload), us |-> us]
    ELSE register_user_insert(us, request_payload)

\* POST /auth/admin/users with the caller's token.
create_user_with_role(us, user_in, token) ==
    LET fail(kind) == [detail |-> kind, us |-> us]
        auth == require_authenticated_admin(us, token)
    IN  IF auth # "ok" THEN fail(auth)
        ELSE IF user_in.username = ADMIN_USERNAME THEN fail("AdminReserved")
        ELSE IF UserNamed(us, user_in.username) # 0 THEN fail("UsernameTaken")
        ELSE IF "game_id" \notin UserCreateFields THEN fail("AttributeError")
        ELSE [detail |-> "ok",
              us |-> Append(us, [username |-> user_in.username, role |-> user_in.role])]

\* PATCH /auth/admin/users/{username}/role with the caller's token.
update_user_role(us, username, role, token) ==
    LET fail(kind) == [detail |-> kind, us |-> us]
        auth == require_authenticated_admin(us, token)
    IN  IF auth # "ok" THEN fail(auth)
        ELSE IF username = ADMIN_USERNAME THEN fail("AdminReserved")
        ELSE IF UserNamed(us, username) = 0 THEN fail("NotFound")
        ELSE [detail |-> "ok", us |-> [us EXCEPT ![UserNamed(us, username)].role = role]]

\* The user table when the application starts: empty, or holding the default
\* admin that auth.ensure_default_admin seeds.
UserTables == {<<>>, <<[username |-> ADMIN_USERNAME, role |-> ADMIN]>>}

InitAuth ==
    /\ InitChat
    /\ users \in UserTables
    /\ parties = <<>>
    /\ slots = <<>>
    /\ members = <<>>
    /\ response = Resp("startup", HTTP_200_OK, "ok")
    /\ requests = [r \in 1..MaxRequests |-> NoRequest]

\* register_user up to the answer of its first query; the handler's later
\* statements run in FinishRegister, and requests of the thread pool may
\* commit between the two. register_user is a coroutine that does not await
\* after reading the body, so one call at a time is between its two queries.
BeginRegister(r) ==
    /\ Free(r)
    /\ \A q \in 1..MaxRequests : requests[q].pc # "registering"
    /\ \E body \in RegisterBodies :
        LET c == register_user_checks(users, body)
        IN  IF c # "ok"
            THEN /\ response' = Resp("register_user", StatusOf(c), c)
                 /\ requests' = [requests EXCEPT ![r] = DoneRequest]
            ELSE /\ requests' = [requests EXCEPT ![r] =
                        [pc |-> "registering", op |-> "register_user", body |-> body]]
                 /\ UNCHANGED response
    /\ UNCHANGED <<parties, slots, members, chatVars, users>>

FinishRegister(r) ==
    /\ requests[r].pc = "registering"
    /\ LET c == register_user_insert(users, requests[r].body)
       IN  /\ Len(c.us) <= MaxUsers
           /\ users' = c.us
           /\ response' = Resp("register_user",
                  IF c.detail = "ok" THEN HTTP_201_CREATED ELSE StatusOf(c.detail), c.detail)
    /\ requests' = [requests EXCEPT ![r] = DoneRequest]
    /\ UNCHANGED <<parties, slots, members, chatVars>>

CreateUserWithRole ==
    /\ \E token \in Tokens :
        \E user_in \in Unread(require_authenticated_admin(users, token) = "ok", UserCreates) :
          LET c == create_user_with_role(users, user_in, token)
          IN  /\ Len(c.us) <= MaxUsers
              /\ users' = c.us
              /\ response' = Resp("create_user_with_role",
                     IF c.detail = "ok" THEN HTTP_201_CREATED ELSE StatusOf(c.detail), c.detail)
    /\ UNCHANGED <<parties, slots, members, requests, chatVars>>

UpdateUserRole ==
    /\ \E token \in Tokens :
        \E username \in Unread(require_authenticated_admin(users, token) = "ok", Usernames) :
          \E role \in Unread(/\ require_authenticated_admin(users, token) = "ok"
                             /\ username # ADMIN_USERNAME
                             /\ UserNamed(users, username) # 0, {ADMIN, USER, GUEST}) :
            LET c == update_user_role(users, username, role, token)
            IN  /\ users' = c.us
                /\ response' = Resp("update_user_role", StatusOf(c.detail), c.detail)
    /\ UNCHANGED <<parties, slots, members, requests, chatVars>>

NextAuth ==
    \/ \E r \in 1..MaxRequests : BeginRegister(r) \/ FinishRegister(r)
    \/ CreateUserWithRole
    \/ UpdateUserRole

SpecAuth == InitAuth /\ [][NextAuth]_vars

\* ================================================================ claims
\* What the claims speak of, stated apart from the handlers' own helpers.
Confirmed == {ACCEPTED, LOCKED}

ConfirmedInParty(ms, p) ==
    Cardinality({i \in DOMAIN ms : ms[i].party_id = p /\ ms[i].state \in Confirmed})

ConfirmedInSlot(ms, s) ==
    Cardinality({i \in DOMAIN ms : ms[i].slot_id = s /\ ms[i].state \in Confirmed})

OthersInParty(p, m) ==
    Cardinality({i \in DOMAIN members :
        i # m /\ members[i].party_id = p /\ members[i].state \in Confirmed})

OthersInSlot(s, m) ==
    Cardinality({i \in DOMAIN members :
        i # m /\ members[i].slot_id = s /\ members[i].state \in Confirmed})

\* The requests a claim quantifies over in a state.
MemberPairs == {pm \in (DOMAIN parties) \X (DOMAIN members) : members[pm[2]].party_id = pm[1]}
HostId(p) == parties[p].host_id
HostName(p) == parties[p].host_name

\* C1: in every reachable state the members of a party in ACCEPTED or LOCKED
\* number at most the party's capacity, when the party has one.
InvPartyCapacity ==
    \A p \in DOMAIN parties :
        parties[p].capacity # None =>
            ConfirmedInParty(members, p) <= parties[p].capacity

\* C1 witness: a party of capacity MaxCapacity is exactly full, holds one more
\* member, and the last transition was refused for party capacity.
WitPartyCapacity ==
    /\ response = Resp("update_member_state", HTTP_409_CONFLICT, "CapacityExceeded")
    /\ \E p \in DOMAIN parties :
          /\ parties[p].capacity = MaxCapacity
          /\ ConfirmedInParty(members, p) = MaxCapacity
          /\ Cardinality({i \in DOMAIN members : members[i].party_id = p}) > MaxCapacity

\* C2: in every reachable state the ACCEPTED or LOCKED members assigned to a
\* slot with ip_target = K number at most K, for every K >= 0.
InvSlotIpTarget ==
    \A s \in DOMAIN slots :
        slots[s].ip_target # None =>
            ConfirmedInSlot(members, s) <= slots[s].ip_target


\* C3: however concurrent transitions of different members of a party
\* interleave, the party's confirmed members number at most its capacity and
\* the confirmed members of a slot with a positive ip_target at most that.
InvConcurrentCapacity ==
    /\ \A p \in DOMAIN parties :
          parties[p].capacity # None =>
              ConfirmedInParty(members, p) <= parties[p].capacity
    /\ \A s \in DOMAIN slots :
          Truthy(slots[s].ip_target) => ConfirmedInSlot(members, s) <= slots[s].ip_target

\* C4: a transition that names a slot other than the member's current one and
\* fails, whatever the failure (slot missing or of another party, member LOCKED
\* or REJECTED, party or slot capacity), leaves the committed member table as it
\* was: neither state nor slot_id of any member changes.
InvTransitionAtomic ==
    \A pm \in MemberPairs : \A payload \in StatePayloads :
        LET r == update_member_state(pm[1], pm[2], payload, HostId(pm[1]))
        IN  (Moving(pm[2], payload) /\ r.detail # "ok") => r.ms = members

\* C4 witness: a transition was refused inside its slot move (only the move
\* raises InvalidStateForMove) and the frozen member still has no slot.
WitTransitionAtomic ==
    /\ response = Resp("update_member_state", HTTP_409_CONFLICT, "InvalidStateForMove")
    /\ \E m \in DOMAIN members :
          members[m].state \in {LOCKED, REJECTED} /\ members[m].slot_id = None
    /\ slots # <<>>

\* C5: a transition or a slot creation by a caller who is neither the party's
\* host nor an admin is answered PermissionDenied and changes no record.
InvNonHostDenied ==
    \A p \in DOMAIN parties : \A caller \in Callers :
        (caller.id # HostId(p) /\ caller.role # "admin") =>
            /\ \A member_id \in MemberIdInputs, payload \in StatePayloads :
                  LET r == update_member_state(p, member_id, payload, caller.id)
                  IN  r.detail = "PermissionDenied" /\ r.ms = members
            /\ \A ip_target \in IpTargets :
                  LET r == create_slot(p, [ip_target |-> ip_target], caller.id)
                  IN  r.detail = "PermissionDenied" /\ r.ss = slots /\ r.ps = parties

\* C5 witness: a transition on a party that has a member was answered 403.
WitNonHostDenied ==
    /\ response = Resp("update_member_state", HTTP_403_FORBIDDEN, "PermissionDenied")
    /\ MemberPairs # {}

\* C6: an admin who is not the party's host gets from the transition and from
\* remove_member exactly what the party's host gets.
InvAdminActsAsHost ==
    \A pm \in MemberPairs :
        (AdminUser.id # HostId(pm[1])) =>
            /\ \A payload \in StatePayloads :
                  update_member_state(pm[1], pm[2], payload, AdminUser.id)
                      = update_member_state(pm[1], pm[2], payload, HostId(pm[1]))
            /\ remove_member(pm[1], pm[2], AdminUser.name)
                  = remove_member(pm[1], pm[2], HostName(pm[1]))

\* A transition's slot move, if it asks for one, gets as far as the capacity
\* check: the slot is one of the party and the member is not frozen.
MoveAdmissible(p, m, payload) ==
    Moving(m, payload) =>
        /\ _get_slot_or_404(p, payload.slot_id)
        /\ members[m].state \notin {LOCKED, REJECTED}

\* The party is full for member m: it has a capacity and the other members in
\* ACCEPTED or LOCKED number at least that.
PartyFullFor(p, m) ==
    parties[p].capacity # None /\ OthersInParty(p, m) >= parties[p].capacity

\* C7: a host transition of m to ACCEPTED or LOCKED that reaches the capacity
\* check is refused with CapacityExceeded, the store unchanged, exactly when
\* the party has a capacity and the other confirmed members number at least
\* the capacity; otherwise it is not refused for party capacity.
InvCapacityExceeded ==
    \A pm \in MemberPairs : \A payload \in StatePayloads :
        (payload.state \in Confirmed /\ MoveAdmissible(pm[1], pm[2], payload)) =>
            LET r == update_member_state(pm[1], pm[2], payload, HostId(pm[1]))
            IN  IF PartyFullFor(pm[1], pm[2])
                THEN r.detail = "CapacityExceeded" /\ r.ms = members
                ELSE r.detail # "CapacityExceeded"

\* C7 witness, the scenario: capacity 2, no slots, three applicants, the first
\* two accepted, the third refused with CapacityExceeded and still APPLIED.
WitCapacityScenario ==
    /\ response = Resp("update_member_state", HTTP_409_CONFLICT, "CapacityExceeded")
    /\ slots = <<>>
    /\ Len(parties) = 1 /\ parties[1].capacity = 2
    /\ members = << [party_id |-> 1, slot_id |-> None, state |-> ACCEPTED],
                    [party_id |-> 1, slot_id |-> None, state |-> ACCEPTED],
                    [party_id |-> 1, slot_id |-> None, state |-> APPLIED] >>

\* The slot a transition's capacity check looks at: the one the payload names,
\* else the member's current one.
SlotAfter(m, payload) ==
    IF payload.slot_id # None THEN payload.slot_id ELSE members[m].slot_id

\* The slot's limit as the claim has it: ip_target, or the party's capacity
\* when ip_target is unset.
SlotLimit(p, s) ==
    IF slots[s].ip_target # None THEN slots[s].ip_target ELSE parties[p].capacity

\* C8: a host transition of m to ACCEPTED or LOCKED that passes the party
\* capacity check, and a slot move of a member in ACCEPTED, are refused with
\* SlotCapacityExceeded when the slot has a limit L and the other confirmed
\* members in the slot number at least L.
InvSlotCapacityExceeded ==
    \A pm \in MemberPairs :
        /\ \A payload \in StatePayloads :
              LET s == SlotAfter(pm[2], payload)
              IN  (/\ payload.state \in Confirmed
                   /\ MoveAdmissible(pm[1], pm[2], payload)
                   /\ ~PartyFullFor(pm[1], pm[2])
                   /\ s # None /\ _get_slot_or_404(pm[1], s)
                   /\ SlotLimit(pm[1], s) # None
                   /\ OthersInSlot(s, pm[2]) >= SlotLimit(pm[1], s))
                  => update_member_state(pm[1], pm[2], payload, HostId(pm[1])).detail
                         = "SlotCapacityExceeded"
        /\ \A s \in DOMAIN slots :
              (/\ members[pm[2]].state = ACCEPTED
               /\ slots[s].party_id = pm[1] /\ members[pm[2]].slot_id # s
               /\ ~PartyFullFor(pm[1], pm[2])
               /\ SlotLimit(pm[1], s) # None
               /\ OthersInSlot(s, pm[2]) >= SlotLimit(pm[1], s))
              => MoveCall(pm[1], pm[2], s).detail = "SlotCapacityExceeded"

\* C9 as stated: moving a LOCKED or REJECTED member to any slot of its party
\* fails with InvalidStateForMove and leaves the member table unchanged.
InvFrozenMoveAnySlot ==
    \A pm \in MemberPairs : \A s \in DOMAIN slots :
        (members[pm[2]].state \in {LOCKED, REJECTED} /\ slots[s].party_id = pm[1]) =>
            LET r == MoveCall(pm[1], pm[2], s)
            IN  r.detail = "InvalidStateForMove" /\ r.ms = members

\* C9 amended: moving a LOCKED or REJECTED member to any slot of its party
\* other than the one it occupies fails with InvalidStateForMove, whatever the
\* free capacity, by a direct move and by a transition that names the slot;
\* the member table, so the member's slot_id, is unchanged.
InvFrozenMoveOtherSlot ==
    \A pm \in MemberPairs : \A s \in DOMAIN slots :
        (/\ members[pm[2]].state \in {LOCKED, REJECTED}
         /\ slots[s].party_id = pm[1]
         /\ members[pm[2]].slot_id # s) =>
            /\ LET r == MoveCall(pm[1], pm[2], s)
               IN  r.detail = "InvalidStateForMove" /\ r.ms = members
            /\ \A st \in MemberState :
                  LET r == update_member_state(pm[1], pm[2], [state |-> st, slot_id |-> s],
                                               HostId(pm[1]))
                  IN  r.detail = "InvalidStateForMove" /\ r.ms = members

\* C9 witness: a direct move of a frozen member was refused, the target slot
\* being empty (free capacity) and the member still outside it.
WitFrozenMove ==
    /\ response = Resp("move_member_to_slot", HTTP_409_CONFLICT, "InvalidStateForMove")
    /\ \E m \in DOMAIN members, s \in DOMAIN slots :
          /\ members[m].state \in {LOCKED, REJECTED}
          /\ slots[s].party_id = members[m].party_id
          /\ members[m].slot_id # s
          /\ ConfirmedInSlot(members, s) = 0

\* C10: remove_member by the party's host succeeds for a member in any state;
\* afterwards the member is KICKED with no slot, every other record is as
\* before, no record is gone, and the member counts toward no party's and no
\* slot's confirmed count.
InvRemoveMember ==
    \A pm \in MemberPairs :
        LET r == remove_member(pm[1], pm[2], HostName(pm[1]))
            m == pm[2]
        IN  /\ r.detail = "ok"
            /\ DOMAIN r.ms = DOMAIN members
            /\ r.ms[m] = [party_id |-> members[m].party_id, slot_id |-> None, state |-> KICKED]
            /\ \A i \in DOMAIN members : i # m => r.ms[i] = members[i]
            /\ ConfirmedInParty(r.ms, pm[1]) = OthersInParty(pm[1], m)
            /\ \A s \in DOMAIN slots : ConfirmedInSlot(r.ms, s) = OthersInSlot(s, m)

\* C10 witness: the host removed a member; it is KICKED without a slot while a
\* slot of its party exists and the record is still there.
WitRemoveMember ==
    /\ response = Resp("remove_member", HTTP_200_OK, "ok")
    /\ \E m \in DOMAIN members :
          /\ members[m].state = KICKED /\ members[m].slot_id = None
          /\ \E s \in DOMAIN slots : slots[s].party_id = members[m].party_id

\* C11: KICKED is terminal: no operation (transition, slot move, remove_member)
\* takes a member whose state is KICKED to any other state.
ActKickedTerminal ==
    [][\A m \in DOMAIN members :
          members[m].state = KICKED => members'[m].state = KICKED]_vars

\* The slot id s names no slot of party p: no such slot, or a slot of another
\* party.
NoSlotOf(p, s) == s \notin DOMAIN slots \/ slots[s].party_id # p

\* The PRIVATE parties whose invite code is code.
PrivateWithCode(code) ==
    {p \in DOMAIN parties : parties[p].visibility = PRIVATE /\ parties[p].invite_code = code}

\* C12: every member's slot_id, if set, names an existing slot of the member's
\* party; an apply, a join by code and a host transition that name a missing
\* slot or a slot of another party are answered NotFound and change no record.
InvSlotReference ==
    /\ \A m \in DOMAIN members :
          members[m].slot_id # None =>
              /\ members[m].slot_id \in DOMAIN slots
              /\ slots[members[m].slot_id].party_id = members[m].party_id
    /\ \A p \in DOMAIN parties, s \in SlotIdInputs :
          NoSlotOf(p, s) =>
              /\ parties[p].visibility = PUBLIC =>
                    apply_to_party(p, [slot_id |-> s]) = [detail |-> "NotFound", ms |-> members]
              /\ \A m \in DOMAIN members, st \in MemberState :
                    members[m].party_id = p =>
                        update_member_state(p, m, [state |-> st, slot_id |-> s], HostId(p))
                            = [detail |-> "NotFound", ms |-> members]
    /\ \A code \in InviteCodes, s \in SlotIdInputs :
          (PrivateWithCode(code) # {} /\ \A p \in PrivateWithCode(code) : NoSlotOf(p, s)) =>
              join_party_by_code(PartyJoinByCode([invite_code |-> code, slot_id |-> s]))
                  = [detail |-> "NotFound", ms |-> members]

\* The number of slots of party p in the slot table ss.
SlotsOf(ss, p) == Cardinality({i \in DOMAIN ss : ss[i].party_id = p})

\* C13: calculate_open_slot_count is None for an unset capacity and otherwise
\* capacity - c, or 0 when that is negative, c being the party's slot count;
\* no value it returns to a request, and no cached open_slot_count, is negative.
InvOpenSlotCount ==
    /\ \A p \in DOMAIN parties, capacity \in Capacities :
          LET open == calculate_open_slot_count(slots, p, capacity)
              c == SlotsOf(slots, p)
          IN  IF capacity = None THEN open = None
              ELSE /\ open = (IF capacity - c > 0 THEN capacity - c ELSE 0)
                   /\ open >= 0
    /\ \A r \in DOMAIN requests :
          requests[r].pc = "write" => (requests[r].open = None \/ requests[r].open >= 0)
    /\ \A p \in DOMAIN parties :
          parties[p].open_slot_count = None \/ parties[p].open_slot_count >= 0

\* C13 witness: a request has counted the slots of a party that holds more
\* slots than its capacity, and got 0.
WitOpenSlotClamped ==
    \E r \in DOMAIN requests :
        /\ requests[r].pc = "write"
        /\ requests[r].open = 0
        /\ SlotsOf(slots, requests[r].party_id) > parties[requests[r].party_id].capacity

\* C14: create_slot by the host on a party of capacity N that has N slots is
\* answered 409 and creates no slot, and no party with a capacity ever holds
\* more slots than the capacity, concurrent create_slot requests included.
InvSlotLimit ==
    /\ \A p \in DOMAIN parties :
          (parties[p].capacity # None /\ SlotsOf(slots, p) = parties[p].capacity) =>
              \A ip_target \in IpTargets :
                  LET c == create_slot(p, [ip_target |-> ip_target], HostId(p))
                  IN  /\ StatusOf(c.detail) = HTTP_409_CONFLICT
                      /\ c.ss = slots
    /\ \A p \in DOMAIN parties :
          parties[p].capacity # None => SlotsOf(slots, p) <= parties[p].capacity

\* C15: create_slot on a party whose status is CLOSED creates no slot and
\* leaves the party's open_slot_count unchanged, whoever calls it.
InvSlotOnlyWhileOpen ==
    \A p \in DOMAIN parties : \A caller \in Callers, ip_target \in IpTargets :
        parties[p].status = CLOSED =>
            LET c == create_slot(p, [ip_target |-> ip_target], caller.id)
            IN  c.ss = slots /\ c.ps[p].open_slot_count = parties[p].open_slot_count

\* The party carries an invite code: one is stored and it is not empty.
HasInviteCode(p) == parties[p].invite_code # None /\ parties[p].invite_code # 0

\* C16: in every reachable state a party has an invite code if and only if it
\* is PRIVATE; a PRIVATE party has its code from create_party on, before any
\* join, and no PUBLIC party carries one.
InvInviteCodeIffPrivate ==
    \A p \in DOMAIN parties : HasInviteCode(p) <=> parties[p].visibility = PRIVATE

\* C17: apply_to_party on a PRIVATE party is refused, and a join by code whose
\* code is that of no PRIVATE party (a wrong code, or the code a PUBLIC party
\* carries) is refused as not found; neither creates a member.
InvPrivateJoinOnlyByCode ==
    /\ \A p \in DOMAIN parties : \A slot_id \in {None} \cup SlotIdInputs :
          parties[p].visibility = PRIVATE =>
              apply_to_party(p, [slot_id |-> slot_id])
                  = [detail |-> "PermissionDenied", ms |-> members]
    /\ \A code \in {0} \cup GeneratedCodes, slot_id \in {None} \cup SlotIdInputs :
          PrivateWithCode(code) = {} =>
              join_party_by_code(PartyJoinByCode([invite_code |-> code, slot_id |-> slot_id]))
                  = [detail |-> "NotFound", ms |-> members]

\* C17 witness: an apply was refused with 403 while a PRIVATE party exists
\* next to a PUBLIC party that carries an invite code, and nobody is a member.
WitPrivateApplyRefused ==
    /\ response = Resp("apply_to_party", HTTP_403_FORBIDDEN, "PermissionDenied")
    /\ \E p \in DOMAIN parties : parties[p].visibility = PRIVATE
    /\ \E p \in DOMAIN parties : parties[p].visibility = PUBLIC /\ HasInviteCode(p)
    /\ members = <<>>

\* C18: an apply to a PUBLIC party, and a join by code with the invite code of
\* a PRIVATE party that supplies the code and a name only, succeed and add
\* exactly one member, of that party, in state APPLIED and without a slot; the
\* confirmed count of every party stays as it was.
InvJoinCreatesApplied ==
    /\ \A p \in DOMAIN parties :
          parties[p].visibility = PUBLIC =>
              LET c == apply_to_party(p, [slot_id |-> None])
              IN  /\ c.detail = "ok"
                  /\ c.ms = Append(members, [party_id |-> p, slot_id |-> None, state |-> APPLIED])
                  /\ \A q \in DOMAIN parties :
                        ConfirmedInParty(c.ms, q) = ConfirmedInParty(members, q)
    /\ \A code \in GeneratedCodes :
          PrivateWithCode(code) # {} =>
              LET c == join_party_by_code(PartyJoinByCode([invite_code |-> code]))
              IN  /\ c.detail = "ok"
                  /\ \E p \in PrivateWithCode(code) :
                        c.ms = Append(members, [party_id |-> p, slot_id |-> None,
                                                state |-> APPLIED])
                  /\ \A q \in DOMAIN parties :
                        ConfirmedInParty(c.ms, q) = ConfirmedInParty(members, q)

\* Message m was handed to a broadcast for its party.
Published(m) ==
    \E i \in DOMAIN published :
        published[i] = [party_id |-> messages[m].party_id, message |-> m]

\* C19: on both write paths a message is handed to broadcast only once it is
\* committed (every publish call carries a stored message of that party, and
\* a message not yet published is held by the handler that committed it, whose
\* next step is the publish call), and every committed message is eventually
\* published.
PersistedThenBroadcast ==
    /\ [](\A i \in DOMAIN published :
             /\ published[i].message \in DOMAIN messages
             /\ messages[published[i].message].party_id = published[i].party_id)
    /\ [](\A m \in DOMAIN messages :
             Published(m) \/ \E t \in Tasks : tasks[t].pc = "persisted" /\ tasks[t].message = m)
    /\ \A m \in 1..MaxMessages : (m \in DOMAIN messages) ~> (m \in DOMAIN messages /\ Published(m))

\* C19 witness: MaxMessages messages are stored and all were published, the
\* last POST was answered 201, and a live connection has received a message.
WitPersistedThenBroadcast ==
    /\ Len(messages) = MaxMessages
    /\ \A m \in DOMAIN messages : Published(m)
    /\ response = Resp("post_chat_message", HTTP_201_CREATED, "ok")
    /\ \E t \in Sockets : tasks[t].received # <<>>

\* The content is empty or whitespace only.
Blank(content) == \A i \in DOMAIN content : content[i] \in Whitespace

\* C20: a chat message with blank content is refused on the POST endpoint and
\* on a live connection, with EmptyMessage when the member is authorised, and
\* the message table is unchanged; no stored message is blank, and every
\* message published or delivered is a stored one, so nothing blank is
\* broadcast.
InvEmptyMessage ==
    /\ \A content \in Contents : \A p \in PartyIdInputs, m \in MemberIdInputs :
          Blank(content) =>
              /\ LET c == post_chat_message(p, m, content)
                 IN  /\ c.detail # "ok" /\ c.msgs = messages
                     /\ _require_active_member(p, m) = "ok" => c.detail = "EmptyMessage"
              /\ LET c == receive_message(p, m, content)
                 IN  /\ c.detail # "ok" /\ c.msgs = messages
                     /\ _require_active_member(p, m) = "ok" => c.detail = "EmptyMessage"
    /\ \A m \in DOMAIN messages : ~Blank(messages[m].content)
    /\ \A i \in DOMAIN published : published[i].message \in DOMAIN messages
    /\ \A t \in Tasks : \A i \in DOMAIN tasks[t].received :
          tasks[t].received[i] \in DOMAIN messages

\* C20 witness: a POST was answered 400 EmptyMessage and a live connection was
\* closed with 1011 after a refused text, while a connection is registered;
\* nothing is stored and nothing was published or delivered.
WitEmptyMessage ==
    /\ response = Resp("post_chat_message", HTTP_400_BAD_REQUEST, "EmptyMessage")
    /\ \E t \in Sockets : tasks[t].pc = "closed" /\ tasks[t].code = WS_1011_INTERNAL_ERROR
    /\ active_connections # <<>>
    /\ messages = <<>> /\ published = <<>>
    /\ \A t \in Tasks : tasks[t].received = <<>>

\* C30: a host transition of a member to the state it is in, naming no slot
\* or the slot it holds, is answered "ok" and leaves the member table as it
\* was; it is never refused for party or slot capacity.
InvSelfTransition ==
    \A p \in DOMAIN parties, m \in DOMAIN members :
        members[m].party_id = p =>
            \A s \in {None, members[m].slot_id} :
                update_member_state(p, m, [state |-> members[m].state, slot_id |-> s], HostId(p))
                    = [detail |-> "ok", ms |-> members]

\* The open slot count of party p by the claim's arithmetic.
OpenSlots(p) ==
    IF parties[p].capacity = None THEN None
    ELSE IF parties[p].capacity - SlotsOf(slots, p) > 0
         THEN parties[p].capacity - SlotsOf(slots, p) ELSE 0

\* Some request on party p has not returned yet.
InFlightOn(p) ==
    \E r \in DOMAIN requests :
        requests[r].pc \in {"insert", "count", "write"} /\ requests[r].party_id = p

\* C26: once create_party and every create_slot on a party have returned, the
\* party's stored open_slot_count is the value calculate_open_slot_count
\* gives for its slots, whatever open_slot_count the creation request carried.
InvOpenSlotCache ==
    \A p \in DOMAIN parties : ~InFlightOn(p) => parties[p].open_slot_count = OpenSlots(p)

\* Task t's broadcast has finished one send in this step.
SendStep(t) ==
    /\ tasks[t].pc = "sending"
    /\ tasks'[t].pc # "sending" \/ tasks'[t].pending # tasks[t].pending

\* The broadcast of task t returned to its caller in this step: the POST is
\* answered 201, the read loop waits for the next text.
PublishReturns(t) ==
    IF t \in Posts
    THEN tasks'[t].pc = "done" /\ response' = Resp("post_chat_message", HTTP_201_CREATED, "ok")
    ELSE tasks'[t].pc = "active"

\* C23: a publish takes the connections registered on its party when it
\* starts, and each of its sends settles exactly one of them: the message is
\* appended once to what that connection received, or the connection could
\* not take it and is removed from the registry while the others stay; either
\* way the publish goes on with the remaining connections, and after the last
\* one it returns normally to the publisher.
ActPublishFailureLocal ==
    [][\A t \in Tasks :
          /\ (tasks[t].pc = "persisted" /\ tasks'[t].pc = "sending") =>
                tasks'[t].pending = connections(active_connections, tasks[t].party_id)
          /\ SendStep(t) =>
                \E c \in tasks[t].pending :
                    /\ \/ /\ tasks'[c].received = Append(tasks[c].received, tasks[t].message)
                          /\ active_connections' = active_connections
                       \/ /\ ~Reachable(c)
                          /\ tasks'[c].received = tasks[c].received
                          /\ connections(active_connections', tasks[t].party_id)
                                = connections(active_connections, tasks[t].party_id) \ {c}
                    /\ IF tasks[t].pending = {c} THEN PublishReturns(t)
                       ELSE /\ tasks'[t].pc = "sending"
                            /\ tasks'[t].pending = tasks[t].pending \ {c}]_vars

\* Connection c received message m1 at some point before message m2.
ReceivedBefore(c, m1, m2) ==
    \E i, j \in DOMAIN tasks[c].received :
        i < j /\ tasks[c].received[i] = m1 /\ tasks[c].received[j] = m2

\* C24: of two messages of one party, the one whose publish call was made
\* first is never received after the other by any connection, whichever
\* handlers published them.
InvDeliveryOrder ==
    \A c \in Sockets : \A i, j \in DOMAIN published :
        (i < j /\ published[i].party_id = published[j].party_id) =>
            ~ReceivedBefore(c, published[j].message, published[i].message)

\* A publish on party p is in progress across this step: some broadcast holds
\* the list it took of p's connections and has sends left, before and after.
Publishing(p) ==
    \E t \in Tasks :
        /\ tasks[t].pc = "sending" /\ tasks[t].party_id = p
        /\ tasks'[t].pc = "sending" /\ tasks'[t].pending = tasks[t].pending

\* C29: while a publish on party p is in progress, no subscribe or
\* unsubscribe changes p's registered set.
ActRegistryExclusive ==
    [][\A p \in DOMAIN parties :
          Publishing(p) =>
              connections(active_connections', p) = connections(active_connections, p)]_vars

\* C27: no party id is registered with an empty set of connections, now or
\* after any unsubscribe (the entry of a party whose last connection goes is
\* dropped), and subscribing a connection that is registered already changes
\* nothing.
InvNoEmptyChannel ==
    /\ \A p \in DOMAIN active_connections : active_connections[p] # {}
    /\ \A p \in PartyIdInputs, c \in Sockets :
          LET left == disconnect(active_connections, p, c)
              twice == connect(connect(active_connections, p, c), p, c)
          IN  /\ \A q \in DOMAIN left : left[q] # {}
              /\ connections(active_connections, p) \subseteq {c} => p \notin DOMAIN left
              /\ twice = connect(active_connections, p, c)
              /\ Cardinality(twice[p]) = Cardinality(connections(active_connections, p) \ {c}) + 1

\* C27 witness: a connection whose peer is gone was the last one of its party
\* and a publish could not deliver to it: it was removed while its read loop
\* still waits, and its party has no entry in the registry.
WitChannelDropped ==
    \E c \in Sockets :
        /\ tasks[c].pc = "active" /\ ~tasks[c].open
        /\ tasks[c].party_id \notin DOMAIN active_connections
        /\ published # <<>>

\* Connection c is in the registry, under any party.
Registered(c) == \E p \in DOMAIN active_connections : c \in active_connections[p]

\* C28: a connection whose handler has ended is not registered.
InvClosedUnregistered ==
    \A c \in Sockets : tasks[c].pc = "closed" => ~Registered(c)

\* Member m exists, belongs to party p, and is not REJECTED.
ActiveMember(p, m) ==
    p \in DOMAIN parties /\ m \in DOMAIN members
        /\ members[m].party_id = p /\ members[m].state # REJECTED

\* C22: every registered connection is registered under the party it named,
\* for a member of that party that is not REJECTED, and no connection is
\* registered before that validation; a connection with a missing or
\* non-numeric member_id, an unknown party, an unknown or other-party member
\* or a REJECTED member is closed with 1008, and a connection closed with 1008
\* is not in the registry.
InvRegisteredValidated ==
    /\ \A p \in DOMAIN active_connections : \A c \in active_connections[p] :
          /\ c \in Sockets /\ tasks[c].pc \notin {"new", "accepting"}
          /\ tasks[c].party_id = p
          /\ ActiveMember(p, tasks[c].member_id)
    /\ \A param \in QueryParams, p \in PartyIdInputs, m \in MemberIdInputs :
          chat_websocket(param, p, m) =
              IF param = "int" /\ ActiveMember(p, m) THEN None ELSE WS_1008_POLICY_VIOLATION
    /\ \A t \in Sockets :
          tasks[t].code = WS_1008_POLICY_VIOLATION => tasks[t].pc = "closed" /\ ~Registered(t)

\* C22 witness: one connection was refused with 1008 and another is
\* registered and has received a message.
WitRefusedAndRegistered ==
    /\ \E t \in Sockets : tasks[t].code = WS_1008_POLICY_VIOLATION
    /\ \E c \in Sockets : Registered(c) /\ tasks[c].received # <<>>

\* The ids of party p's last n messages, oldest first.
HistoryOf(p, n) ==
    LET mine == SelectSeq([i \in DOMAIN messages |-> i], LAMBDA i : messages[i].party_id = p)
    IN  IF Len(mine) <= n THEN mine ELSE SubSeq(mine, Len(mine) - n + 1, Len(mine))

\* C21: for a party that exists, a caller who is no member of it or is
\* REJECTED is refused with 403 on the POST endpoint and on the history
\* endpoint: the message table is unchanged and no history is returned. A
\* member of the party in any other state is authorised on both: the POST is
\* refused at most for its content, the history is the party's last messages.
\* A message is added only for an author authorised at that moment, and only
\* stored messages are published.
ChatAuthorised ==
    /\ [](\A p \in DOMAIN parties, m \in MemberIdInputs :
            /\ \A content \in Contents :
                  LET c == post_chat_message(p, m, content)
                  IN  IF ActiveMember(p, m) THEN c.detail \in {"ok", "EmptyMessage"}
                      ELSE StatusOf(c.detail) = HTTP_403_FORBIDDEN /\ c.msgs = messages
            /\ \A limit \in Limits :
                  LET h == get_chat_history(p, m, limit)
                  IN  IF ActiveMember(p, m)
                      THEN h = [detail |-> "ok", history |-> HistoryOf(p, limit)]
                      ELSE StatusOf(h.detail) = HTTP_403_FORBIDDEN /\ h.history = <<>>)
    /\ [][/\ messages' # messages =>
               /\ Len(messages') = Len(messages) + 1
               /\ ActiveMember(messages'[Len(messages')].party_id,
                               messages'[Len(messages')].member_id)
          /\ published' # published =>
               published'[Len(published')].message \in DOMAIN messages]_vars

\* C21 witness: a REJECTED member of a party that has a published message was
\* refused its history, while a KICKED member of the other party has posted.
WitChatRefused ==
    /\ response = [op |-> "get_chat_history", status |-> HTTP_403_FORBIDDEN,
                   detail |-> "ChatBlocked", body |-> <<>>]
    /\ \E m \in DOMAIN members :
          /\ members[m].state = REJECTED
          /\ \E i \in DOMAIN published : published[i].party_id = members[m].party_id
    /\ \E k \in DOMAIN messages :
          members[messages[k].member_id].state = KICKED

\* The rows of table `after` that table `before` did not hold.
CreatedRows(before, after) == {after[i] : i \in (Len(before) + 1)..Len(after)}

\* The role field of a registration body is present and is not "user".
OtherRole(body) ==
    ~(body.role.type = "absent" \/ (body.role.type = "str" /\ body.role.value = "user"))

\* The registration body the completing call of register_user was given.
RegisterAnswers(r, body) ==
    \/ requests[r].pc = "registering" /\ requests[r].body = body /\ FinishRegister(r)
    \/ /\ BeginRegister(r)
       /\ requests'[r].pc = "done"
       /\ register_user_checks(users, body) = response'.detail

\* C25: POST /auth/register never creates a user whose role is not "user": a
\* request without a role field, for a username that is free and is not the
\* reserved admin name, creates that user with role "user"; a request whose
\* role field is anything other than "user" is answered 400 and creates no
\* user; and a user with role admin is created only by the admin endpoint,
\* called by an authenticated admin.
ActRegisterRole ==
    [][/\ \A r \in 1..MaxRequests : \A body \in RegisterBodies :
            RegisterAnswers(r, body) =>
                /\ \A u \in CreatedRows(users, users') : u.role = USER
                /\ (/\ body.role.type = "absent"
                    /\ body.username # ADMIN_USERNAME
                    /\ \A i \in DOMAIN users : users[i].username # body.username)
                        => /\ response'.status = HTTP_201_CREATED
                           /\ users' = Append(users, [username |-> body.username, role |-> USER])
                /\ OtherRole(body)
                        => /\ response'.status = HTTP_400_BAD_REQUEST
                           /\ users' = users
       /\ \A u \in CreatedRows(users, users') :
            u.role = ADMIN =>
                /\ response'.op = "create_user_with_role"
                /\ \E i \in DOMAIN users : users[i].role = ADMIN
      ]_vars

\* C31: move_member_to_slot to the slot the member already occupies returns
\* the member unchanged and writes nothing, whatever the member's state and
\* whatever the capacity check would answer: the direct call, and the call
\* with every commit flag and target state, answer "ok" with the member
\* object and the member table as they were.
InvSameSlotNoOp ==
    \A member_id \in DOMAIN members :
        LET member == members[member_id]
            call == MoveCall(member.party_id, member_id, member.slot_id)
        IN  member.slot_id # None =>
                /\ call.detail = "ok"
                /\ call.ms = members
                /\ \A commit \in BOOLEAN, target_state \in MemberState \cup {NoState} :
                     LET r == move_member_to_slot(members, member.party_id, member_id, member,
                                                  member.slot_id, commit, target_state)
                     IN  r.detail = "ok" /\ r.member = member /\ r.ms = members

\* C31 witness: a same-slot move was answered "ok" while every member is
\* locked or rejected in a slot, states in which a move to another slot is
\* refused.
WitSameSlotNoOp ==
    /\ response.op = "move_member_to_slot"
    /\ response.detail = "ok"
    /\ members # <<>>
    /\ \A m \in DOMAIN members :
        members[m].state \in {LOCKED, REJECTED} /\ members[m].slot_id # None
    /\ \E m \in DOMAIN members : members[m].state = REJECTED
    /\ \E m \in DOMAIN members : members[m].state = LOCKED

\* C32: in every reachable state a member in state KICKED has no slot,
\* whichever operation moved it to KICKED.
InvKickedNoSlot ==
    \A m \in DOMAIN members : members[m].state = KICKED => members[m].slot_id = None

\* C34: for every party, every member of it and every caller, remove_member
\* refuses the caller as not being the host exactly when update_member_state
\* does: no caller passes the host check of one and fails that of the other.
InvSameHostCheck ==
    \A pm \in MemberPairs, caller \in Callers, payload \in StatePayloads :
        (remove_member(pm[1], pm[2], caller.name).detail = "PermissionDenied")
            <=> (update_member_state(pm[1], pm[2], payload, caller.id).detail = "PermissionDenied")

\* The broadcast of task t delivers its message to connection c in this step.
Delivers(t, c) ==
    /\ tasks[t].pc = "sending"
    /\ c \in tasks[t].pending
    /\ tasks'[c].received = Append(tasks[c].received, tasks[t].message)

\* C33: once a member is REJECTED, no message published afterwards on the
\* party is delivered to a connection that member opened earlier: every
\* connection a broadcast delivers to belongs to a member that was not
\* REJECTED when the broadcast was called.
ActNoDeliveryToRejected ==
    [][\A t \in Tasks, c \in Sockets : Delivers(t, c) => c \notin tasks[t].rejected]_vars

====
